---- MODULE Spec2Model ----
(***************************************************************************)
(* Model of the listing search pipeline of routers/properties.py:          *)
(* the sorter of search_properties, the validity checker                   *)
(* check_object_validity and the paginator filter_and_paginate_items.      *)
(***************************************************************************)
EXTENDS Integers, Sequences, FiniteSets, TLC

\* ------------------------------------------------------------------ bounds
MaxPrimary == 3
MaxSecondary == 2
MaxOffset == 1
MaxLimit == 2
MaxBatch == 2
MaxConcurrent == 2
MaxSortItems == 2
MaxRetryItems == 2

MaxLiveItems == 2

MaxBatchItems == 3
MaxPipeItems == 2
MaxAgents == 2
MaxMopWords == 3
MaxRemoteAgents == 2
MaxRawParams == 1

\* ------------------------------------------------------- program constants
\* check_object_validity(..., max_retries: int = 2)
max_retries == 2

\* ------------------------------------------------------------- basic values
Min(a, b) == IF a < b THEN a ELSE b

\* Optional values: None is <<>>, a present value v is <<v>>.
None == <<>>

Some(v) == <<v>>

IsNone(o) == o = <<>>

Val(o) == o[1]

\* Python's s[a:b] for 0 <= a, 0 <= b, on a 1-based sequence.
Slice(s, a, b) == IF a >= Min(b, Len(s)) THEN <<>> ELSE SubSeq(s, a + 1, Min(b, Len(s)))

\* Strings are sequences of character codes; 'z' is the largest letter.
CharZ == 26

EmptyStr == <<>>

\* Lexicographic comparison of two strings, as Python's str.__lt__.
RECURSIVE StrLess(_, _)
StrLess(s, t) ==
  IF t = <<>> THEN FALSE
  ELSE IF s = <<>> THEN TRUE
  ELSE IF s[1] # t[1] THEN s[1] < t[1]
  ELSE StrLess(Tail(s), Tail(t))

\* ------------------------------------------------------------------- items
Vitrina == "Vitrina"

Krisha == "Krisha"

\* The id of a Primary record is str(crm_id); crm_id is a string primary key,
\* so at most one record has the empty id.
EmptyId == <<>>

PrimaryId(k) == <<"p", k>>

SecondaryId(k) == <<"s", k>>

\* ------------------------------------------------------ the remote authority
\* What the validity endpoint answers once it is reachable.
\* `present` holds the keys the JSON body has; photos is len(photoIdList).
BodyKeys == {"expired", "isSold", "photoIdList"}

Valid200 == [kind |-> "http", status |-> 200, expired |-> FALSE, isSold |-> FALSE, photos |-> 1,
             present |-> BodyKeys]

Expired200 == [kind |-> "http", status |-> 200, expired |-> TRUE, isSold |-> FALSE, photos |-> 1,
               present |-> BodyKeys]

Http500 == [kind |-> "http", status |-> 500, expired |-> FALSE, isSold |-> FALSE, photos |-> 0,
            present |-> {}]

\* The request raises an error that is not a network error.
OtherError == [kind |-> "error", status |-> 0, expired |-> FALSE, isSold |-> FALSE, photos |-> 0,
               present |-> {}]

\* Every 200 answer: each key missing or present with either value.
Bodies200 ==
  {[kind |-> "http", status |-> 200, expired |-> e, isSold |-> s, photos |-> n, present |-> pr] :
     e \in BOOLEAN, s \in BOOLEAN, n \in {0, 1}, pr \in SUBSET BodyKeys}

Answers == {Valid200, Expired200, Http500}

\* A Primary item's remote behaviour: its first `timeouts` requests fail with a
\* transient network error, every later request gets `answer`.
NoScript == [timeouts |-> 0, answer |-> Http500]

Scripts == [timeouts : 0 .. (max_retries + 1), answer : Answers]

\* The behaviours the paginator can tell apart: an endpoint that answers the
\* first request, validly or not, and one that no attempt reaches (its answer
\* is never read).
PagScripts ==
  {s \in Scripts :
     /\ s.answer \in {Valid200, Http500}
     /\ s.timeouts \in {0, max_retries + 1}
     /\ s.timeouts > max_retries => s.answer = Http500}

VARIABLES
  vitrina_properties,   \* rows fetched from properties
  krisha_properties,    \* rows fetched from parsed_properties
  items,                \* the unified item list (sorted in place by the sorter)
  order_by,             \* None or <<[desc, field]>>
  token,                \* APPLICATION_VIEW_API_TOKEN is set
  offset, limit, max_concurrent, batch_size,
  script,               \* item index -> remote behaviour of that item's endpoint
  pc,                   \* position of the request handler
  pos,                  \* for-loop position in vitrina_items
  vitrina_batch,        \* original indexes of the current batch
  valid_vitrina_items,  \* original indexes of the valid Primary items so far
  checked_vitrina,      \* original index -> is_valid, for the checked items
  tasks,                \* batch position -> state of its check_with_semaphore task
  completion,           \* batch positions in the order their checks returned
  permits,              \* value of the semaphore
  requests,             \* item index -> number of GET requests sent for it
  page, total,
  db_agents,            \* rows of vitrina_agents: [agent_phone, full_name]
  api_agents,           \* the remote directory: [login, surname, name] entries
  agents_token,         \* AGENTS_API_TOKEN is set
  api_script,           \* remote behaviour of the directory endpoint
  need_api_fallback,    \* queue of [type, k, search_value], k a page position
  api_agents_cache,     \* what fetch_agents_from_api returned
  fetch_attempt,        \* attempt number inside fetch_agents_from_api
  fetch_calls,          \* number of calls of fetch_agents_from_api
  api_requests,         \* number of GET requests sent to the directory endpoint
  request,              \* the raw query parameters of the request
  filters               \* the filter bounds after parsing and validation

vars == <<vitrina_properties, krisha_properties, items, order_by, token, offset, limit, max_concurrent, batch_size, script,
          pc, pos, vitrina_batch, valid_vitrina_items, checked_vitrina, tasks,
          completion, permits, requests, page, total,
          db_agents, api_agents, agents_token, api_script,
          need_api_fallback, api_agents_cache, fetch_attempt, fetch_calls, api_requests,
          request, filters>>

data_inputs == <<vitrina_properties, krisha_properties, order_by, token, offset, limit, max_concurrent, batch_size, script,
                 db_agents, api_agents, agents_token, api_script, request>>

inputs == <<data_inputs, filters>>

contact_vars == <<need_api_fallback, api_agents_cache, fetch_attempt, fetch_calls, api_requests>>

\* ---------------------------------------------------------------- paginator
Indexes(src) == SelectSeq([i \in 1 .. Len(items) |-> i], LAMBDA i : items[i].source = src)

\* vitrina_items / krisha_items hold (item, idx) pairs; the model keeps idx.
vitrina_items == Indexes(Vitrina)

krisha_items == Indexes(Krisha)

target_count == offset + limit

ItemsAt(idxs) == [k \in 1 .. Len(idxs) |-> items[idxs[k]]]

\* --------------------------------------------------- check_object_validity
InSeq(x, s) == \E k \in 1 .. Len(s) : s[k] = x

\* Variant: a sold object still counts as valid.
OnAnswer_IgnoreSold(a) ==
  IF a.kind = "http" /\ a.status = 200
    THEN LET expired == IF "expired" \in a.present THEN a.expired ELSE FALSE
             photo_id_list == IF "photoIdList" \in a.present THEN a.photos ELSE 0
             has_photos == photo_id_list > 0
             is_valid == ~expired /\ has_photos
         IN <<is_valid, has_photos>>
    ELSE <<FALSE, FALSE>>

\* Lines 375-398: a 200 answer is evaluated (data.get with its defaults), any
\* other status and any other error is invalid.
OnAnswer(a) ==
  IF a.kind = "http" /\ a.status = 200
    THEN LET expired == IF "expired" \in a.present THEN a.expired ELSE FALSE
             is_sold == IF "isSold" \in a.present THEN a.isSold ELSE FALSE
             photo_id_list == IF "photoIdList" \in a.present THEN a.photos ELSE 0
             has_photos == photo_id_list > 0
             is_valid == ~expired /\ has_photos /\ ~is_sold
         IN <<is_valid, has_photos>>
    ELSE <<FALSE, FALSE>>

\* Variant: one more retry than max_retries.
RetryAfterTransient_OneMore(attempt) == attempt <= max_retries

\* Transient failure of attempt number `attempt` (0-based): retry or give up.
RetryAfterTransient(attempt) == attempt < max_retries

\* Variant: exhausted retries exclude the item.
ExhaustedResult_Invalid == <<FALSE, FALSE>>

\* All attempts failed transiently: the item is kept.
ExhaustedResult == <<TRUE, TRUE>>

NewTask == [st |-> "waiting", attempt |-> 0, res |-> <<FALSE, FALSE>>]

\* Variant: the task does not wait for a permit.
CanAcquire_Always(p) == TRUE

\* The semaphore admits a task.
CanAcquire(p) == p > 0

Gathering == pc \in {"gather", "gather_tail"}

\* check_with_semaphore enters `async with semaphore` and check_object_validity
\* runs up to its first await: an empty id returns at once, otherwise the first
\* GET is sent.
Acquire(k) ==
  /\ Gathering
  /\ k \in DOMAIN tasks
  /\ tasks[k].st = "waiting"
  /\ CanAcquire(permits)
  /\ LET idx == vitrina_batch[k] IN
       IF items[idx].id = EmptyId
         THEN /\ tasks' = [tasks EXCEPT ![k] = [st |-> "done", attempt |-> 0, res |-> <<FALSE, FALSE>>]]
              /\ completion' = Append(completion, k)
              /\ UNCHANGED <<permits, requests>>
         ELSE /\ tasks' = [tasks EXCEPT ![k].st = "inflight"]
              /\ permits' = permits - 1
              /\ requests' = [requests EXCEPT ![idx] = @ + 1]
              /\ UNCHANGED completion
  /\ UNCHANGED <<items, inputs, contact_vars, pc, pos, vitrina_batch, valid_vitrina_items, checked_vitrina, page, total>>

\* Variant: the permit is given back for the backoff sleep.
RespondTransient_ReleaseInBackoff(k) ==
  /\ Gathering
  /\ k \in DOMAIN tasks
  /\ tasks[k].st = "inflight"
  /\ tasks[k].attempt < script[vitrina_batch[k]].timeouts
  /\ IF RetryAfterTransient(tasks[k].attempt)
       THEN /\ tasks' = [tasks EXCEPT ![k].st = "backoff"]
            /\ permits' = permits + 1
            /\ UNCHANGED completion
       ELSE /\ tasks' = [tasks EXCEPT ![k] = [st |-> "done", attempt |-> @.attempt, res |-> ExhaustedResult]]
            /\ permits' = permits + 1
            /\ completion' = Append(completion, k)
  /\ UNCHANGED <<items, inputs, contact_vars, pc, pos, vitrina_batch, valid_vitrina_items, checked_vitrina, requests, page, total>>

\* Variant: a check that gives up keeps its permit.
RespondTransient_KeepPermit(k) ==
  /\ Gathering
  /\ k \in DOMAIN tasks
  /\ tasks[k].st = "inflight"
  /\ tasks[k].attempt < script[vitrina_batch[k]].timeouts
  /\ IF RetryAfterTransient(tasks[k].attempt)
       THEN /\ tasks' = [tasks EXCEPT ![k].st = "backoff"]
            /\ UNCHANGED <<permits, completion>>
       ELSE /\ tasks' = [tasks EXCEPT ![k] = [st |-> "done", attempt |-> @.attempt, res |-> ExhaustedResult]]
            /\ completion' = Append(completion, k)
            /\ UNCHANGED permits
  /\ UNCHANGED <<items, inputs, contact_vars, pc, pos, vitrina_batch, valid_vitrina_items, checked_vitrina, requests, page, total>>

\* The GET in flight fails with TimeoutException / ConnectError / NetworkError.
RespondTransient(k) ==
  /\ Gathering
  /\ k \in DOMAIN tasks
  /\ tasks[k].st = "inflight"
  /\ tasks[k].attempt < script[vitrina_batch[k]].timeouts
  /\ IF RetryAfterTransient(tasks[k].attempt)
       THEN /\ tasks' = [tasks EXCEPT ![k].st = "backoff"]
            /\ UNCHANGED <<permits, completion>>
       ELSE /\ tasks' = [tasks EXCEPT ![k] = [st |-> "done", attempt |-> @.attempt, res |-> ExhaustedResult]]
            /\ permits' = permits + 1
            /\ completion' = Append(completion, k)
  /\ UNCHANGED <<items, inputs, contact_vars, pc, pos, vitrina_batch, valid_vitrina_items, checked_vitrina, requests, page, total>>

\* Variant: a non-success status is retried like a network error.
RespondAnswer_RetryOnError(k) ==
  /\ Gathering
  /\ k \in DOMAIN tasks
  /\ tasks[k].st = "inflight"
  /\ tasks[k].attempt >= script[vitrina_batch[k]].timeouts
  /\ IF script[vitrina_batch[k]].answer.status # 200 /\ RetryAfterTransient(tasks[k].attempt)
       THEN /\ tasks' = [tasks EXCEPT ![k].st = "backoff"]
            /\ UNCHANGED <<permits, completion>>
       ELSE /\ tasks' = [tasks EXCEPT ![k] = [st |-> "done", attempt |-> @.attempt,
                                              res |-> OnAnswer(script[vitrina_batch[k]].answer)]]
            /\ permits' = permits + 1
            /\ completion' = Append(completion, k)
  /\ UNCHANGED <<items, inputs, contact_vars, pc, pos, vitrina_batch, valid_vitrina_items, checked_vitrina, requests, page, total>>

\* The GET in flight is answered (or raises a non-network error).
RespondAnswer(k) ==
  /\ Gathering
  /\ k \in DOMAIN tasks
  /\ tasks[k].st = "inflight"
  /\ tasks[k].attempt >= script[vitrina_batch[k]].timeouts
  /\ tasks' = [tasks EXCEPT ![k] = [st |-> "done", attempt |-> @.attempt,
                                    res |-> OnAnswer(script[vitrina_batch[k]].answer)]]
  /\ permits' = permits + 1
  /\ completion' = Append(completion, k)
  /\ UNCHANGED <<items, inputs, contact_vars, pc, pos, vitrina_batch, valid_vitrina_items, checked_vitrina, requests, page, total>>

\* The backoff sleep ends and the next attempt's GET is sent.
Wake(k) ==
  /\ Gathering
  /\ k \in DOMAIN tasks
  /\ tasks[k].st = "backoff"
  /\ tasks' = [tasks EXCEPT ![k] = [st |-> "inflight", attempt |-> @.attempt + 1, res |-> @.res]]
  /\ requests' = [requests EXCEPT ![vitrina_batch[k]] = @ + 1]
  /\ UNCHANGED <<items, inputs, contact_vars, pc, pos, vitrina_batch, valid_vitrina_items, checked_vitrina, completion, permits, page, total>>

\* Variant: the results come back in the order the checks returned.
GatherResults_ByCompletion(ts, done_order) == [k \in 1 .. Len(ts) |-> ts[done_order[k]].res]

\* asyncio.gather returns the results in the order of its arguments.
GatherResults(ts, done_order) == [k \in 1 .. Len(ts) |-> ts[k].res]

\* Variant: the gather returns with the first finished check.
AllDone_Any == \E k \in DOMAIN tasks : tasks[k].st = "done"

\* await asyncio.gather(*tasks) returns when every check has returned.
AllDone == \A k \in DOMAIN tasks : tasks[k].st = "done"

\* The zip loop after a gather: record every result, keep the valid items.
ValidOfBatch(batch, validity_checks) ==
  LET keep == SelectSeq([k \in 1 .. Len(batch) |-> k], LAMBDA k : validity_checks[k][1])
  IN [j \in 1 .. Len(keep) |-> batch[keep[j]]]

CheckedAfter(batch, validity_checks) ==
  [i \in DOMAIN checked_vitrina \cup {batch[k] : k \in 1 .. Len(batch)} |->
     IF \E k \in 1 .. Len(batch) : batch[k] = i
       THEN validity_checks[CHOOSE k \in 1 .. Len(batch) : batch[k] = i][1]
       ELSE checked_vitrina[i]]

Spawn(batch) == [k \in 1 .. Len(batch) |-> NewTask]

\* Variant: the missing token is not noticed.
Start_IgnoreToken ==
  /\ pc = "start"
  /\ permits' = max_concurrent
  /\ pc' = "loop"
  /\ UNCHANGED <<items, inputs, contact_vars, pos, vitrina_batch, valid_vitrina_items, checked_vitrina, tasks, completion, requests, page, total>>

\* Lines 497-518: split the list; without the token return the Krisha slice.
Start ==
  /\ pc = "start"
  /\ IF ~token
       THEN /\ page' = ItemsAt(Slice(krisha_items, offset, offset + limit))
            /\ total' = Len(items)
            /\ pc' = "done"
            /\ UNCHANGED permits
       ELSE /\ permits' = max_concurrent
            /\ pc' = "loop"
            /\ UNCHANGED <<page, total>>
  /\ UNCHANGED <<items, inputs, contact_vars, pos, vitrina_batch, valid_vitrina_items, checked_vitrina, tasks, completion, requests>>

\* One iteration of `for item, original_idx in vitrina_items` up to its await.
LoopIter ==
  /\ pc = "loop"
  /\ IF pos > Len(vitrina_items)
       THEN /\ pc' = "tail"
            /\ UNCHANGED <<pos, vitrina_batch, tasks, completion>>
       ELSE LET batch == Append(vitrina_batch, vitrina_items[pos]) IN
            /\ vitrina_batch' = batch
            /\ IF Len(batch) >= batch_size
                 THEN /\ pc' = "gather"
                      /\ tasks' = Spawn(batch)
                      /\ completion' = <<>>
                      /\ UNCHANGED pos
                 ELSE /\ pc' = IF Len(valid_vitrina_items) >= target_count THEN "tail" ELSE "loop"
                      /\ pos' = pos + 1
                      /\ UNCHANGED <<tasks, completion>>
  /\ UNCHANGED <<items, inputs, contact_vars, valid_vitrina_items, checked_vitrina, permits, requests, page, total>>

\* Variant: the loop goes on after the target is reached.
GatherDoneLoop_NoBreak ==
  /\ pc = "gather"
  /\ AllDone
  /\ LET validity_checks == GatherResults(tasks, completion)
         valid == valid_vitrina_items \o ValidOfBatch(vitrina_batch, validity_checks)
     IN /\ valid_vitrina_items' = valid
        /\ checked_vitrina' = CheckedAfter(vitrina_batch, validity_checks)
        /\ pc' = "loop"
  /\ vitrina_batch' = <<>>
  /\ tasks' = <<>>
  /\ pos' = pos + 1
  /\ UNCHANGED <<items, inputs, contact_vars, completion, permits, requests, page, total>>

\* Lines 539-548: the gather of a full batch returned.
GatherDoneLoop ==
  /\ pc = "gather"
  /\ AllDone
  /\ LET validity_checks == GatherResults(tasks, completion)
         valid == valid_vitrina_items \o ValidOfBatch(vitrina_batch, validity_checks)
     IN /\ valid_vitrina_items' = valid
        /\ checked_vitrina' = CheckedAfter(vitrina_batch, validity_checks)
        /\ pc' = IF Len(valid) >= target_count THEN "tail" ELSE "loop"
  /\ vitrina_batch' = <<>>
  /\ tasks' = <<>>
  /\ pos' = pos + 1
  /\ UNCHANGED <<items, inputs, contact_vars, completion, permits, requests, page, total>>

\* Line 551: check the remaining partial batch if more items are needed.
TailStart ==
  /\ pc = "tail"
  /\ IF vitrina_batch # <<>> /\ Len(valid_vitrina_items) < target_count
       THEN /\ pc' = "gather_tail"
            /\ tasks' = Spawn(vitrina_batch)
            /\ completion' = <<>>
       ELSE /\ pc' = "fill"
            /\ UNCHANGED <<tasks, completion>>
  /\ UNCHANGED <<items, inputs, contact_vars, pos, vitrina_batch, valid_vitrina_items, checked_vitrina, permits, requests, page, total>>

\* Lines 556-559: the gather of the partial batch returned.
GatherDoneTail ==
  /\ pc = "gather_tail"
  /\ AllDone
  /\ LET validity_checks == GatherResults(tasks, completion)
     IN /\ valid_vitrina_items' = valid_vitrina_items \o ValidOfBatch(vitrina_batch, validity_checks)
        /\ checked_vitrina' = CheckedAfter(vitrina_batch, validity_checks)
  /\ pc' = "fill"
  /\ tasks' = <<>>
  /\ UNCHANGED <<items, inputs, contact_vars, pos, vitrina_batch, completion, permits, requests, page, total>>

\* list.sort(key=lambda x: x[1]) on a list of (item, idx) pairs kept as idx.
RECURSIVE InsertIdx(_, _)
InsertIdx(s, x) ==
  IF s = <<>> THEN <<x>>
  ELSE IF x < s[Len(s)] THEN Append(InsertIdx(SubSeq(s, 1, Len(s) - 1), x), s[Len(s)])
  ELSE Append(s, x)

RECURSIVE SortByIdx(_)
SortByIdx(s) == IF s = <<>> THEN <<>> ELSE InsertIdx(SortByIdx(SubSeq(s, 1, Len(s) - 1)), s[Len(s)])

\* Variant: the top-up forgets the offset.
AllValidItems_NoOffset(valid) ==
  IF Len(valid) < target_count
    THEN valid \o Slice(krisha_items, 0, limit - Len(valid))
    ELSE valid

\* Variant: a shortfall takes every Krisha item.
AllValidItems_TakeAll(valid) ==
  IF Len(valid) < target_count
    THEN valid \o krisha_items
    ELSE valid

\* Lines 563-571: valid Primary items, topped up with Krisha items.
AllValidItems(valid) ==
  IF Len(valid) < target_count
    THEN valid \o Slice(krisha_items, 0, target_count - Len(valid))
    ELSE valid

\* Variant: the slice has no upper end.
Paginate_NoLimit(all_valid_items) == Slice(all_valid_items, offset, Len(all_valid_items))

\* Variant: every page starts at the first item.
Paginate_IgnoreOffset(all_valid_items) == Slice(all_valid_items, 0, limit)

\* Line 578.
Paginate(all_valid_items) == Slice(all_valid_items, offset, offset + limit)

\* Variant: the count of the items that passed the filter.
ReturnedTotal_Valid(all_valid_items) == Len(all_valid_items)

\* Line 580: the count returned with the page.
ReturnedTotal(all_valid_items) == Len(items)

\* Lines 563-580.
Fill ==
  /\ pc = "fill"
  /\ LET all_valid_items == SortByIdx(AllValidItems(valid_vitrina_items))
     IN /\ page' = ItemsAt(Paginate(all_valid_items))
        /\ total' = ReturnedTotal(all_valid_items)
  /\ pc' = "done"
  /\ UNCHANGED <<items, inputs, contact_vars, pos, vitrina_batch, valid_vitrina_items, checked_vitrina, tasks, completion, permits, requests>>

\* ------------------------------------------------------- unifier and sorter
\* Python's `x or 0` and `x or ''` on an optional value.
OrZero(o) == IF IsNone(o) \/ Val(o) = 0 THEN 0 ELSE Val(o)

OrEmpty(o) == IF IsNone(o) \/ Val(o) = EmptyStr THEN EmptyStr ELSE Val(o)

\* Lines 779-795: price is int(contract_price) if contract_price else None;
\* mop is the item's '_mop' key (a key an item lacks reads as None).
UnifyVitrina(prop) ==
  [source |-> Vitrina, id |-> prop.crm_id, category |-> prop.category, score |-> prop.score,
   price |-> IF OrZero(prop.contract_price) = 0 THEN None ELSE prop.contract_price,
   area |-> prop.area,
   contact_name |-> None, contact_phone |-> None,
   mop |-> prop.mop, stats_agent_given |-> None]

\* Lines 799-815: score is always None; prices are whole numbers in the model.
UnifyKrisha(prop) ==
  [source |-> Krisha, id |-> prop.vitrina_id, category |-> prop.stats_object_category,
   score |-> None,
   price |-> IF OrZero(prop.sell_price) = 0 THEN None ELSE prop.sell_price,
   area |-> prop.area,
   contact_name |-> None, contact_phone |-> None,
   mop |-> None, stats_agent_given |-> prop.stats_agent_given]

\* Lines 775-815: the Vitrina rows, then the Krisha rows.
UnifyAll(vp, kp) ==
  [i \in 1 .. Len(vp) |-> UnifyVitrina(vp[i])] \o [i \in 1 .. Len(kp) |-> UnifyKrisha(kp[i])]

\* Components of a sort key: numbers and strings.
Num(n) == [t |-> "num", v |-> n]

Str(s) == [t |-> "str", v |-> s]

CompLess(a, b) == IF a.t = "num" THEN a.v < b.v ELSE StrLess(a.v, b.v)

\* Python's tuple comparison.
RECURSIVE KeyLess(_, _)
KeyLess(a, b) ==
  IF b = <<>> THEN FALSE
  ELSE IF a = <<>> THEN TRUE
  ELSE IF CompLess(a[1], b[1]) THEN TRUE
  ELSE IF CompLess(b[1], a[1]) THEN FALSE
  ELSE KeyLess(Tail(a), Tail(b))

\* Variant: the source is not part of the key.
source_order_Ignored(item) == 0

\* Lines 836, 860: 0 for a Vitrina item, 1 for a Krisha item.
source_order(item) == IF item.source = Vitrina THEN 0 ELSE 1

\* Lines 859-865: the key of the default sort.
DefaultKey(x) ==
  << Num(source_order(x)),
     Str(OrEmpty(x.category)),
     Num(IF x.source = Vitrina THEN -OrZero(x.score) ELSE 0),
     Num(OrZero(x.price)),
     Num(-OrZero(x.area)) >>

\* Lines 828-832: contract_price is an alias of price.
field_mapping(field_name) == IF field_name = "contract_price" THEN "price" ELSE field_name

\* item.get(sort_field): None for a key the item does not have.
ItemGet(item, f) ==
  CASE f = "category" -> item.category
    [] f = "score" -> item.score
    [] f = "price" -> item.price
    [] f = "area" -> item.area
    [] OTHER -> None

\* isinstance(field_value, (int, float)).
IsNumeric(f) == f \in {"score", "price", "area"}

ZZZ == <<CharZ, CharZ, CharZ>>

\* Variant: an absent value gets the rank of a present one and the smallest key.
sort_key_AbsentFirst(item, desc, sort_field) ==
  LET field_value == ItemGet(item, sort_field) IN
  IF IsNone(field_value)
    THEN << Num(source_order(item)), Num(-1), Str(EmptyStr) >>
    ELSE IF IsNumeric(sort_field)
      THEN << Num(source_order(item)), Num(0), Num(IF desc THEN -Val(field_value) ELSE Val(field_value)) >>
      ELSE << Num(source_order(item)), Num(0), Str(IF desc THEN ZZZ \o Val(field_value) ELSE Val(field_value)) >>

\* Lines 835-854: the key of a sort by one field.
sort_key(item, desc, sort_field) ==
  LET field_value == ItemGet(item, sort_field) IN
  IF IsNone(field_value)
    THEN << Num(source_order(item)), Num(1), Str(IF desc THEN ZZZ ELSE EmptyStr) >>
    ELSE IF IsNumeric(sort_field)
      THEN << Num(source_order(item)), Num(0), Num(IF desc THEN -Val(field_value) ELSE Val(field_value)) >>
      ELSE << Num(source_order(item)), Num(0), Str(IF desc THEN ZZZ \o Val(field_value) ELSE Val(field_value)) >>

\* list.sort is stable: x goes after every element whose key is not greater.
RECURSIVE InsertByKey(_, _, _)
InsertByKey(s, x, keys) ==
  IF s = <<>> THEN <<x>>
  ELSE IF KeyLess(keys[x], keys[s[Len(s)]])
    THEN Append(InsertByKey(SubSeq(s, 1, Len(s) - 1), x, keys), s[Len(s)])
    ELSE Append(s, x)

RECURSIVE SortPerm(_, _)
SortPerm(n, keys) == IF n = 0 THEN <<>> ELSE InsertByKey(SortPerm(n - 1, keys), n, keys)

\* Lines 819-865: sort by order_by when it is given, by the default key otherwise.
SortItems(its, ob) ==
  LET keys == IF IsNone(ob)
                THEN [i \in 1 .. Len(its) |-> DefaultKey(its[i])]
                ELSE [i \in 1 .. Len(its) |->
                        sort_key(its[i], Val(ob).desc, field_mapping(Val(ob).field))]
      perm == SortPerm(Len(its), keys)
  IN [k \in 1 .. Len(its) |-> its[perm[k]]]

paginator_vars == <<pos, vitrina_batch, valid_vitrina_items, checked_vitrina, tasks,
                    completion, permits, requests, page, total>>

\* Lines 775-815.
Unify ==
  /\ pc = "unify"
  /\ items' = UnifyAll(vitrina_properties, krisha_properties)
  /\ pc' = "sort"
  /\ UNCHANGED <<inputs, contact_vars, paginator_vars>>

\* Lines 819-865.
Sort ==
  /\ pc = "sort"
  /\ items' = SortItems(items, order_by)
  /\ pc' = "sorted"
  /\ UNCHANGED <<inputs, contact_vars, paginator_vars>>

\* ------------------------------------------------------------------- Init
VitrinaRow(id, c, s, p, a) ==
  [crm_id |-> id, category |-> c, score |-> s, contract_price |-> p, area |-> a, mop |-> None]

KrishaRow(id, c, p, a) ==
  [vitrina_id |-> id, stats_object_category |-> c, sell_price |-> p, area |-> a,
   stats_agent_given |-> None]

\* crm_id is a string primary key: at most one row has the empty id.
BareVitrina(n, emptyFirst) ==
  [i \in 1 .. n |-> VitrinaRow(IF i = 1 /\ emptyFirst THEN EmptyId ELSE PrimaryId(i),
                               None, None, None, None)]

BareKrisha(n) == [i \in 1 .. n |-> KrishaRow(SecondaryId(i), None, None, None)]

FilterNames ==
  {"price_min", "price_max", "area_min", "area_max", "rooms_count_min", "rooms_count_max", "score_min"}

NoFilters == [f \in FilterNames |-> None]

RawNone == [t |-> "none"]

RawInt(n) == [t |-> "int", v |-> n]

RawStr(s) == [t |-> "str", s |-> s]

\* A request that passed parameter validation and gave no filter.
RequestAccepted ==
  /\ request = [limit |-> limit, offset |-> offset, raw |-> [f \in FilterNames |-> RawNone]]
  /\ filters = NoFilters

\* No contact has been looked up yet.
InitResolver ==
  /\ need_api_fallback = <<>>
  /\ api_agents_cache = <<>>
  /\ fetch_attempt = 0
  /\ fetch_calls = 0
  /\ api_requests = 0

NoApiScript == [timeouts |-> 0, error |-> "TimeoutException", ok |-> FALSE]

\* Empty directories and no directory credential.
NoDirectories ==
  /\ db_agents = <<>>
  /\ api_agents = <<>>
  /\ agents_token = FALSE
  /\ api_script = NoApiScript

InitPaginator ==
  /\ pos = 1
  /\ vitrina_batch = <<>>
  /\ valid_vitrina_items = <<>>
  /\ checked_vitrina = <<>>
  /\ tasks = <<>>
  /\ completion = <<>>
  /\ permits = 0
  /\ page = <<>>

\* A request whose rows are fetched, unified and sorted (line 866), about to
\* call filter_and_paginate_items.
Init ==
  /\ \E nP \in 0 .. MaxPrimary, nS \in 0 .. MaxSecondary, e \in BOOLEAN :
       /\ nP = 0 => ~e
       /\ vitrina_properties = BareVitrina(nP, e)
       /\ krisha_properties = BareKrisha(nS)
       /\ script \in [1 .. (nP + nS) -> PagScripts \cup {NoScript}]
       /\ \A i \in 1 .. (nP + nS) : (i > nP \/ (i = 1 /\ e)) => script[i] = NoScript
       /\ requests = [i \in 1 .. (nP + nS) |-> 0]
  /\ order_by = None
  /\ items = SortItems(UnifyAll(vitrina_properties, krisha_properties), order_by)
  /\ total = Len(vitrina_properties) + Len(krisha_properties)
  /\ token \in BOOLEAN
  /\ offset \in 0 .. MaxOffset
  /\ limit \in 1 .. MaxLimit
  /\ max_concurrent \in 1 .. MaxConcurrent
  /\ batch_size \in 1 .. MaxBatch
  /\ pc = "start"
  /\ InitPaginator
  /\ InitResolver
  /\ RequestAccepted
  /\ NoDirectories

Next ==
  \/ Start
  \/ LoopIter
  \/ \E k \in 1 .. MaxBatch : Acquire(k)
  \/ \E k \in 1 .. MaxBatch : RespondTransient(k)
  \/ \E k \in 1 .. MaxBatch : RespondAnswer(k)
  \/ \E k \in 1 .. MaxBatch : Wake(k)
  \/ GatherDoneLoop
  \/ TailStart
  \/ GatherDoneTail
  \/ Fill

Spec == Init /\ [][Next]_vars

\* Requests of up to MaxRetryItems Primary items and one Secondary item whose
\* endpoints show every retry outcome.
InitRetry ==
  /\ \E nP \in 1 .. MaxRetryItems :
       /\ vitrina_properties = BareVitrina(nP, FALSE)
       /\ script \in [1 .. (nP + 1) -> Scripts]
       /\ script[nP + 1] = NoScript
       /\ requests = [i \in 1 .. (nP + 1) |-> 0]
  /\ krisha_properties = BareKrisha(1)
  /\ order_by = None
  /\ items = SortItems(UnifyAll(vitrina_properties, krisha_properties), order_by)
  /\ total = Len(vitrina_properties) + Len(krisha_properties)
  /\ token = TRUE
  /\ offset = 0
  /\ limit \in 1 .. MaxRetryItems
  /\ batch_size \in 1 .. MaxRetryItems
  /\ max_concurrent \in 1 .. batch_size
  /\ pc = "start"
  /\ InitPaginator
  /\ InitResolver
  /\ RequestAccepted
  /\ NoDirectories

SpecRetry == InitRetry /\ [][Next]_vars

\* Paginator runs over up to MaxBatchItems Primary items, in batches of one or
\* two, with endpoints that answer the first request or that no attempt
\* reaches.
InitBatches ==
  /\ \E nP \in 0 .. MaxBatchItems, nS \in 0 .. 2, e \in BOOLEAN :
       /\ nP = 0 => ~e
       /\ vitrina_properties = BareVitrina(nP, e)
       /\ krisha_properties = BareKrisha(nS)
       /\ script \in [1 .. (nP + nS) -> PagScripts \cup {NoScript}]
       /\ \A i \in 1 .. (nP + nS) : (i > nP \/ (i = 1 /\ e)) => script[i] = NoScript
       /\ requests = [i \in 1 .. (nP + nS) |-> 0]
  /\ order_by = None
  /\ items = SortItems(UnifyAll(vitrina_properties, krisha_properties), order_by)
  /\ total = Len(vitrina_properties) + Len(krisha_properties)
  /\ token \in BOOLEAN
  /\ offset \in {0, 1}
  /\ limit \in {1, 2}
  /\ max_concurrent \in {1, 2}
  /\ batch_size \in {1, 2}
  /\ pc = "start"
  /\ InitPaginator
  /\ InitResolver
  /\ RequestAccepted
  /\ NoDirectories

SpecBatches == InitBatches /\ [][Next]_vars

\* Endpoints that answer the first or the second request, with a valid
\* object or an error that is not a network error, and endpoints that no
\* attempt reaches.
LiveScripts ==
  [timeouts : {0, 1}, answer : {Valid200, OtherError}]
    \cup {[timeouts |-> max_retries + 1, answer |-> Http500]}

\* A paginator run over up to MaxLiveItems Primary items and at most one
\* Secondary item.
InitLive ==
  /\ \E nP \in 0 .. MaxLiveItems, nS \in 0 .. 1, e \in BOOLEAN :
       /\ nP = 0 => ~e
       /\ vitrina_properties = BareVitrina(nP, e)
       /\ krisha_properties = BareKrisha(nS)
       /\ script \in [1 .. (nP + nS) -> LiveScripts \cup {NoScript}]
       /\ \A i \in 1 .. (nP + nS) : (i > nP \/ (i = 1 /\ e)) => script[i] = NoScript
       /\ requests = [i \in 1 .. (nP + nS) |-> 0]
  /\ order_by = None
  /\ items = SortItems(UnifyAll(vitrina_properties, krisha_properties), order_by)
  /\ total = Len(vitrina_properties) + Len(krisha_properties)
  /\ token \in BOOLEAN
  /\ offset = 0
  /\ limit \in {1, 2}
  /\ batch_size \in {1, 2}
  /\ max_concurrent \in {1, 2}
  /\ pc = "start"
  /\ InitPaginator
  /\ InitResolver
  /\ RequestAccepted
  /\ NoDirectories

\* Every request in flight is eventually answered or fails, every sleep ends,
\* and the event loop runs every coroutine that can go on.
Fairness == WF_vars(Next)

SpecLive == InitLive /\ [][Next]_vars /\ Fairness

\* One Primary item, alone in its batch or in the partial batch, whose endpoint
\* shows any retry outcome and any answer.
CheckScripts == [timeouts : 0 .. (max_retries + 1), answer : Bodies200 \cup {Http500, OtherError}]

InitCheck ==
  /\ \E e \in BOOLEAN :
       /\ vitrina_properties = BareVitrina(1, e)
       /\ script \in [1 .. 2 -> CheckScripts \cup {NoScript}]
       /\ script[2] = NoScript
       /\ e => script[1] = NoScript
  /\ krisha_properties = BareKrisha(1)
  /\ requests = [i \in 1 .. 2 |-> 0]
  /\ order_by = None
  /\ items = SortItems(UnifyAll(vitrina_properties, krisha_properties), order_by)
  /\ total = Len(vitrina_properties) + Len(krisha_properties)
  /\ token = TRUE
  /\ offset = 0
  /\ limit = 1
  /\ batch_size \in {1, 2}
  /\ max_concurrent = 1
  /\ pc = "start"
  /\ InitPaginator
  /\ InitResolver
  /\ RequestAccepted
  /\ NoDirectories

SpecCheck == InitCheck /\ [][Next]_vars

\* ------------------------------------------- the sorter on its own inputs
Categories == {None, Some(<<1>>), Some(<<2>>)}

Scores == {None, Some(1)}

Prices == {None, Some(1), Some(2)}

Areas == {None, Some(1)}

SortFields == {"category", "score", "price", "area", "contract_price", "foo"}

OrderBys == {None} \cup {Some([desc |-> d, field |-> f]) : d \in BOOLEAN, f \in SortFields}

VitrinaRows(k) == {VitrinaRow(PrimaryId(k), c, s, p, a) : c \in Categories, s \in Scores, p \in Prices, a \in Areas}

KrishaRows(k) == {KrishaRow(SecondaryId(k), c, p, a) : c \in Categories, p \in Prices, a \in Areas}

InitSort ==
  /\ \E nP \in 0 .. MaxSortItems, nS \in 0 .. MaxSortItems :
       /\ nP + nS <= MaxSortItems
       /\ vitrina_properties \in {r \in [1 .. nP -> UNION {VitrinaRows(k) : k \in 1 .. nP}] :
                                    \A k \in 1 .. nP : r[k] \in VitrinaRows(k)}
       /\ krisha_properties \in {r \in [1 .. nS -> UNION {KrishaRows(k) : k \in 1 .. nS}] :
                                   \A k \in 1 .. nS : r[k] \in KrishaRows(k)}
       /\ script = [i \in 1 .. (nP + nS) |-> NoScript]
       /\ requests = [i \in 1 .. (nP + nS) |-> 0]
  /\ order_by \in OrderBys
  /\ items = <<>>
  /\ total = Len(vitrina_properties) + Len(krisha_properties)
  /\ token = FALSE
  /\ offset = 0
  /\ limit = 1
  /\ max_concurrent = 1
  /\ batch_size = 1
  /\ pc = "unify"
  /\ InitPaginator
  /\ InitResolver
  /\ RequestAccepted
  /\ NoDirectories

NextSort ==
  \/ Unify
  \/ Sort

SpecSort == InitSort /\ [][NextSort]_vars

\* --------------------------------------------------------- contact resolver
\* Text is a sequence of character codes: letters 1 .. CharZ, an upper-case
\* letter 32 below its lower-case one (as in ASCII), and the space.
Space == 0

Upper(c) == c - 32

IsUpper(c) == c < Space

\* str.lower()
LowerStr(s) == [k \in 1 .. Len(s) |-> IF IsUpper(s[k]) THEN s[k] + 32 ELSE s[k]]

\* str.strip()
RECURSIVE Strip(_)
Strip(s) ==
  IF s = <<>> THEN s
  ELSE IF s[1] = Space THEN Strip(Tail(s))
  ELSE IF s[Len(s)] = Space THEN Strip(SubSeq(s, 1, Len(s) - 1))
  ELSE s

\* str.split(): the maximal runs of non-space characters, in order.
RECURSIVE SplitFrom(_, _, _)
SplitFrom(s, cur, acc) ==
  IF s = <<>> THEN (IF cur = <<>> THEN acc ELSE Append(acc, cur))
  ELSE IF s[1] = Space
    THEN SplitFrom(Tail(s), <<>>, IF cur = <<>> THEN acc ELSE Append(acc, cur))
    ELSE SplitFrom(Tail(s), Append(cur, s[1]), acc)

Split(s) == SplitFrom(s, <<>>, <<>>)

\* " ".join(words)
RECURSIVE Join(_)
Join(ws) ==
  IF ws = <<>> THEN <<>>
  ELSE IF Len(ws) = 1 THEN ws[1]
  ELSE ws[1] \o <<Space>> \o Join(Tail(ws))

\* Variant: the words keep their case.
normalize_words_CaseSensitive(text) == LET ws == Split(text) IN [k \in 1 .. Len(ws) |-> Strip(ws[k])]

\* Lines 46-47.
normalize_words(text) == LET ws == Split(text) IN [k \in 1 .. Len(ws) |-> LowerStr(Strip(ws[k]))]

\* sorted(words)
RECURSIVE InsertWord(_, _)
InsertWord(s, w) ==
  IF s = <<>> THEN <<w>>
  ELSE IF StrLess(w, s[Len(s)]) THEN Append(InsertWord(SubSeq(s, 1, Len(s) - 1), w), s[Len(s)])
  ELSE Append(s, w)

RECURSIVE SortWords(_)
SortWords(ws) == IF ws = <<>> THEN <<>> ELSE InsertWord(SortWords(SubSeq(ws, 1, Len(ws) - 1)), ws[Len(ws)])

\* Python truthiness of an optional string.
Truthy(o) == ~IsNone(o) /\ Val(o) # EmptyStr

\* dict.get(key): None for a missing key.
DictGet(d, key) == IF key \in DOMAIN d THEN Some(d[key]) ELSE None

DictSet(d, key, v) == [x \in DOMAIN d \cup {key} |-> IF x = key THEN v ELSE d[x]]

EmptyDict == <<>>

\* Line 77: the length the new name's word count is compared with, computed
\* from the phone stored under the key.
StoredWordCount(d, key) ==
  LET stored == DictGet(d, key) IN
  IF Truthy(stored) THEN Len(normalize_words(Split(Val(stored))[1])) ELSE 0

\* Lines 67-78 and 263-276: one entry (its phone or login, its full name) is
\* entered into both indexes.
IndexAgent(idx, phone, full_name) ==
  IF Truthy(phone) /\ Truthy(full_name)
    THEN LET phone_clean == Strip(Val(phone))
             name_words == normalize_words(Val(full_name))
             name_key == Join(SortWords(name_words))
         IN [phone_to_name |-> DictSet(idx.phone_to_name, phone_clean, Val(full_name)),
             name_to_phone |->
               IF name_words # <<>>
                    /\ (name_key \notin DOMAIN idx.name_to_phone
                          \/ Len(name_words) > StoredWordCount(idx.name_to_phone, name_key))
                 THEN DictSet(idx.name_to_phone, name_key, phone_clean)
                 ELSE idx.name_to_phone]
    ELSE idx

EmptyIndexes == [phone_to_name |-> EmptyDict, name_to_phone |-> EmptyDict]

\* Lines 50-80: agents are [agent_phone, full_name] records.
RECURSIVE prepare_agents_indexes(_)
prepare_agents_indexes(agents) ==
  IF agents = <<>> THEN EmptyIndexes
  ELSE LET agent == agents[Len(agents)]
       IN IndexAgent(prepare_agents_indexes(SubSeq(agents, 1, Len(agents) - 1)),
                     agent.agent_phone, agent.full_name)

\* Lines 163-171: the pairs (i, j), i < j, in the order of the two loops; the
\* first pair whose key is in the index gives the result.
RECURSIVE FirstHit(_, _, _, _)
FirstHit(mop_words, i, j, name_to_phone) ==
  IF i > Len(mop_words) THEN None
  ELSE IF j > Len(mop_words) THEN FirstHit(mop_words, i + 1, i + 2, name_to_phone)
  ELSE LET key == Join(SortWords(<<mop_words[i], mop_words[j]>>)) IN
       IF key \in DOMAIN name_to_phone THEN Some(name_to_phone[key])
       ELSE FirstHit(mop_words, i, j + 1, name_to_phone)

\* Lines 140-173.
find_agent_phone_from_db_optimized(mop, name_to_phone) ==
  IF ~Truthy(mop) \/ Strip(Val(mop)) = EmptyStr THEN None
  ELSE LET mop_words == normalize_words(Val(mop)) IN
       IF Len(mop_words) < 2 THEN None
       ELSE FirstHit(mop_words, 1, 2, name_to_phone)

\* Lines 83-94: remote entries are [login, surname, name] records.
make_full_name(agent, reverse) ==
  LET surname == IF Truthy(agent.surname) THEN Strip(Val(agent.surname)) ELSE EmptyStr
      name == IF Truthy(agent.name) THEN Strip(Val(agent.name)) ELSE EmptyStr
      parts == SelectSeq(IF reverse THEN <<name, surname>> ELSE <<surname, name>>,
                         LAMBDA part : part # EmptyStr)
      full == Join(parts)
  IN IF full = EmptyStr THEN None ELSE Some(full)

\* Lines 249-278.
RECURSIVE prepare_api_agents_indexes(_)
prepare_api_agents_indexes(agents) ==
  IF agents = <<>> THEN EmptyIndexes
  ELSE LET agent == agents[Len(agents)]
       IN IndexAgent(prepare_api_agents_indexes(SubSeq(agents, 1, Len(agents) - 1)),
                     agent.login, make_full_name(agent, FALSE))

\* Lines 890-917: the contact of one page item from the local directory, and
\* the value to look up remotely when the local directory has no match.
FirstPassItem(item, idx) ==
  IF item.source = Vitrina
    THEN LET mop == item.mop
             contact_name == IF Truthy(mop) THEN mop ELSE None
             contact_phone == find_agent_phone_from_db_optimized(mop, idx.name_to_phone)
         IN [contact_name |-> contact_name, contact_phone |-> contact_phone,
             fallback |-> IF IsNone(contact_phone) /\ Truthy(contact_name)
                            THEN Some([type |-> "vitrina", search_value |-> Val(mop)])
                            ELSE None]
    ELSE LET given == item.stats_agent_given IN
         IF ~Truthy(given) \/ Strip(Val(given)) = EmptyStr
           THEN [contact_name |-> None, contact_phone |-> None, fallback |-> None]
           ELSE LET contact_phone == Strip(Val(given))
                    contact_name == DictGet(idx.phone_to_name, contact_phone)
                IN [contact_name |-> contact_name, contact_phone |-> Some(contact_phone),
                    fallback |-> IF IsNone(contact_name)
                                   THEN Some([type |-> "krisha", search_value |-> contact_phone])
                                   ELSE None]

\* Variant: the directory is fetched whether or not an item was queued.
FirstPass_AlwaysFetch ==
  /\ pc = "done"
  /\ LET idx == prepare_agents_indexes(db_agents)
         res == [k \in 1 .. Len(page) |-> FirstPassItem(page[k], idx)]
         queued == SelectSeq([k \in 1 .. Len(page) |-> k], LAMBDA k : ~IsNone(res[k].fallback))
         queue == [q \in 1 .. Len(queued) |->
                     [type |-> Val(res[queued[q]].fallback).type, k |-> queued[q],
                      search_value |-> Val(res[queued[q]].fallback).search_value]]
     IN /\ page' = [k \in 1 .. Len(page) |->
                      [page[k] EXCEPT !.contact_name = res[k].contact_name,
                                      !.contact_phone = res[k].contact_phone]]
        /\ need_api_fallback' = queue
        /\ pc' = "fetch"
  /\ UNCHANGED <<items, inputs, pos, vitrina_batch, valid_vitrina_items, checked_vitrina, tasks,
                 completion, permits, requests, total,
                 api_agents_cache, fetch_attempt, fetch_calls, api_requests>>

\* Lines 886-923: the first pass over the page; the item dicts of the page are
\* updated in place, the model keeps the page's copies of them.
FirstPass ==
  /\ pc = "done"
  /\ LET idx == prepare_agents_indexes(db_agents)
         res == [k \in 1 .. Len(page) |-> FirstPassItem(page[k], idx)]
         queued == SelectSeq([k \in 1 .. Len(page) |-> k], LAMBDA k : ~IsNone(res[k].fallback))
         queue == [q \in 1 .. Len(queued) |->
                     [type |-> Val(res[queued[q]].fallback).type, k |-> queued[q],
                      search_value |-> Val(res[queued[q]].fallback).search_value]]
     IN /\ page' = [k \in 1 .. Len(page) |->
                      [page[k] EXCEPT !.contact_name = res[k].contact_name,
                                      !.contact_phone = res[k].contact_phone]]
        /\ need_api_fallback' = queue
        /\ pc' = IF queue # <<>> THEN "fetch" ELSE "respond"
  /\ UNCHANGED <<items, inputs, pos, vitrina_batch, valid_vitrina_items, checked_vitrina, tasks,
                 completion, permits, requests, total,
                 api_agents_cache, fetch_attempt, fetch_calls, api_requests>>

\* fetch_agents_from_api(): max_retries = 3 attempts.
fetch_max_retries == 3

\* Variant: the request is sent without the credential.
FetchStart_IgnoreToken ==
  /\ pc = "fetch"
  /\ fetch_calls' = fetch_calls + 1
  /\ fetch_attempt' = 1
  /\ api_requests' = api_requests + 1
  /\ pc' = "fetching"
  /\ UNCHANGED api_agents_cache
  /\ UNCHANGED <<items, inputs, paginator_vars, need_api_fallback>>

\* Lines 309-325: the call; without the credential it returns [] at once,
\* otherwise the first GET is sent.
FetchStart ==
  /\ pc = "fetch"
  /\ fetch_calls' = fetch_calls + 1
  /\ IF ~agents_token
       THEN /\ api_agents_cache' = <<>>
            /\ pc' = "second"
            /\ UNCHANGED <<fetch_attempt, api_requests>>
       ELSE /\ fetch_attempt' = 1
            /\ api_requests' = api_requests + 1
            /\ pc' = "fetching"
            /\ UNCHANGED api_agents_cache
  /\ UNCHANGED <<items, inputs, paginator_vars, need_api_fallback>>

\* Variant: an error that is not a timeout returns [] at once.
RetriedErrors_TimeoutOnly == {"TimeoutException"}

\* Lines 331-344: the except clauses that sleep and try again: TimeoutException,
\* and `except Exception`, which takes every error but HTTPStatusError, a
\* ConnectError and the JSONDecodeError of response.json() alike.
RetriedErrors == {"TimeoutException", "ConnectError", "JSONDecodeError"}

\* Lines 325-344: the GET returns. The first api_script.timeouts attempts
\* raise api_script.error: a retried error sleeps and tries again until the
\* last attempt, then returns []. After them the endpoint answers: a bad
\* status (HTTPStatusError) returns [], a good answer the payload's entries.
FetchRespond ==
  /\ pc = "fetching"
  /\ IF fetch_attempt <= api_script.timeouts
       THEN IF api_script.error \in RetriedErrors /\ fetch_attempt < fetch_max_retries
              THEN /\ pc' = "fetch_sleep"
                   /\ UNCHANGED api_agents_cache
              ELSE /\ pc' = "second"
                   /\ api_agents_cache' = <<>>
       ELSE /\ pc' = "second"
            /\ api_agents_cache' = IF api_script.ok THEN api_agents ELSE <<>>
  /\ UNCHANGED <<items, inputs, paginator_vars, need_api_fallback, fetch_attempt, fetch_calls, api_requests>>

\* Lines 333-334, 341-342: the sleep ends and the next attempt's GET is sent.
FetchWake ==
  /\ pc = "fetch_sleep"
  /\ fetch_attempt' = fetch_attempt + 1
  /\ api_requests' = api_requests + 1
  /\ pc' = "fetching"
  /\ UNCHANGED <<items, inputs, paginator_vars, need_api_fallback, api_agents_cache, fetch_calls>>

\* Variant: the fallback resolves names of Krisha items only.
SecondPassItem_KrishaOnly(entry, api_idx) ==
  IF entry.type = "vitrina"
    THEN None
    ELSE IF api_idx.phone_to_name # EmptyDict
           THEN LET contact_name == DictGet(api_idx.phone_to_name, entry.search_value)
                IN IF Truthy(contact_name) THEN contact_name ELSE None
           ELSE None

\* Lines 928-940: the remote contact of one queued item, None when nothing is
\* to be changed.
SecondPassItem(entry, api_idx) ==
  IF entry.type = "vitrina"
    THEN IF api_idx.name_to_phone # EmptyDict
           THEN LET contact_phone == find_agent_phone_from_db_optimized(Some(entry.search_value),
                                                                        api_idx.name_to_phone)
                IN IF Truthy(contact_phone) THEN contact_phone ELSE None
           ELSE None
    ELSE IF api_idx.phone_to_name # EmptyDict
           THEN LET contact_name == DictGet(api_idx.phone_to_name, entry.search_value)
                IN IF Truthy(contact_name) THEN contact_name ELSE None
           ELSE None

\* Lines 924-940: the second pass over the queued items.
SecondPass ==
  /\ pc = "second"
  /\ LET api_idx == IF api_agents_cache # <<>>
                      THEN prepare_api_agents_indexes(api_agents_cache)
                      ELSE EmptyIndexes
         EntryOf(k) == CHOOSE q \in 1 .. Len(need_api_fallback) : need_api_fallback[q].k = k
         Queued(k) == \E q \in 1 .. Len(need_api_fallback) : need_api_fallback[q].k = k
         Found(k) == SecondPassItem(need_api_fallback[EntryOf(k)], api_idx)
     IN page' = [k \in 1 .. Len(page) |->
                   IF Queued(k) /\ ~IsNone(Found(k))
                     THEN IF need_api_fallback[EntryOf(k)].type = "vitrina"
                            THEN [page[k] EXCEPT !.contact_phone = Found(k)]
                            ELSE [page[k] EXCEPT !.contact_name = Found(k)]
                     ELSE page[k]]
  /\ pc' = "respond"
  /\ UNCHANGED <<items, inputs, pos, vitrina_batch, valid_vitrina_items, checked_vitrina, tasks,
                 completion, permits, requests, total, contact_vars>>

\* Lines 943-986: the temporary keys are removed and the response is built.
Respond ==
  /\ pc = "respond"
  /\ page' = [k \in 1 .. Len(page) |-> [page[k] EXCEPT !.mop = None, !.stats_agent_given = None]]
  /\ pc' = "responded"
  /\ UNCHANGED <<items, inputs, pos, vitrina_batch, valid_vitrina_items, checked_vitrina, tasks,
                 completion, permits, requests, total, contact_vars>>

\* ------------------------------------------------- the handler end to end
\* Line 870: the sorted list is handed to filter_and_paginate_items.
CallPaginator ==
  /\ pc = "sorted"
  /\ pc' = "start"
  /\ UNCHANGED <<items, inputs, contact_vars, paginator_vars>>

PipePrices == {None, Some(1)}

PipeFields == {"price", "foo"}

PipeOrderBys == {None} \cup {Some([desc |-> d, field |-> f]) : d \in BOOLEAN, f \in PipeFields}

PipeVitrinaRows(k) == {VitrinaRow(PrimaryId(k), None, None, p, None) : p \in PipePrices}

PipeKrishaRows(k) == {KrishaRow(SecondaryId(k), None, p, None) : p \in PipePrices}

\* A request from the fetch of its rows to the returned page; script[i] is the
\* endpoint's behaviour for the item at sorted position i.
InitPipeline ==
  /\ \E nP \in 0 .. MaxPipeItems, nS \in 0 .. MaxPipeItems :
       /\ nP + nS <= MaxPipeItems
       /\ vitrina_properties \in {r \in [1 .. nP -> UNION {PipeVitrinaRows(k) : k \in 1 .. nP}] :
                                    \A k \in 1 .. nP : r[k] \in PipeVitrinaRows(k)}
       /\ krisha_properties \in {r \in [1 .. nS -> UNION {PipeKrishaRows(k) : k \in 1 .. nS}] :
                                   \A k \in 1 .. nS : r[k] \in PipeKrishaRows(k)}
       /\ script \in [1 .. (nP + nS) -> PagScripts \cup {NoScript}]
       /\ \A i \in 1 .. (nP + nS) : i > nP => script[i] = NoScript
       /\ requests = [i \in 1 .. (nP + nS) |-> 0]
  /\ order_by \in PipeOrderBys
  /\ items = <<>>
  /\ total = Len(vitrina_properties) + Len(krisha_properties)
  /\ token \in BOOLEAN
  /\ offset \in {0, MaxOffset}
  /\ limit \in {1, MaxLimit}
  /\ max_concurrent \in {1, MaxConcurrent}
  /\ batch_size \in {1, MaxBatch}
  /\ pc = "unify"
  /\ InitPaginator
  /\ InitResolver
  /\ RequestAccepted
  /\ NoDirectories

NextPipeline ==
  \/ Unify
  \/ Sort
  \/ CallPaginator
  \/ Next

SpecPipeline == InitPipeline /\ [][NextPipeline]_vars

\* ------------------------------------------- the resolver on its own inputs
\* Line 874-875: the values search_properties passes to the paginator.
handler_max_concurrent == 10

handler_batch_size == 20

\* The state in which filter_and_paginate_items returns (line 876) when the
\* credential is set, every Primary item is valid, offset is 0 and limit is
\* the number of rows: fewer than batch_size Primary items are checked in one
\* partial batch and the page is the whole sorted list.
PaginatorReturned(vp, kp) ==
  LET nP == Len(vp)
      n == Len(vp) + Len(kp)
  IN /\ vitrina_properties = vp
     /\ krisha_properties = kp
     /\ order_by = None
     /\ items = SortItems(UnifyAll(vp, kp), None)
     /\ token = TRUE
     /\ offset = 0
     /\ limit = IF n = 0 THEN 1 ELSE n
     /\ max_concurrent = handler_max_concurrent
     /\ batch_size = handler_batch_size
     /\ script = [i \in 1 .. n |-> IF i <= nP THEN [timeouts |-> 0, answer |-> Valid200] ELSE NoScript]
     /\ pc = "done"
     /\ pos = nP + 1
     /\ vitrina_batch = [k \in 1 .. nP |-> k]
     /\ valid_vitrina_items = [k \in 1 .. nP |-> k]
     /\ checked_vitrina = [i \in 1 .. nP |-> TRUE]
     /\ tasks = <<>>
     /\ completion = [k \in 1 .. nP |-> k]
     /\ permits = handler_max_concurrent
     /\ requests = [i \in 1 .. n |-> IF i <= nP THEN 1 ELSE 0]
     /\ page = items
     /\ total = n

\* Words: "a", "b", "c"; the directory writes "B" and the items write "A".
WordA == <<1>>

WordB == <<2>>

WordC == <<3>>

MopWords == {<<Upper(1)>>, WordB, WordC}

Phone(k) == <<7, k>>

\* Texts of exactly n words, single-spaced.
TextsOf(words, n) == {Join(ws) : ws \in [1 .. n -> words]}

\* Full names: none, "a", "a B", "B a", "B c", "c c".
DirNames ==
  {None, Some(WordA), Some(Join(<<WordA, <<Upper(2)>> >>)), Some(Join(<< <<Upper(2)>>, WordA>>)),
   Some(Join(<< <<Upper(2)>>, WordC>>)), Some(Join(<<WordC, WordC>>))}

\* The k-th row of vitrina_agents: a phone (stored with a trailing space) and
\* any name, or a two-word name without a phone.
DirEntries(k) ==
  {[agent_phone |-> Some(Phone(k) \o <<Space>>), full_name |-> n] : n \in DirNames}
    \cup {[agent_phone |-> None, full_name |-> Some(Join(<<WordA, WordC>>))]}

Directories(max) ==
  UNION {{d \in [1 .. n -> UNION {DirEntries(k) : k \in 1 .. n}] : \A k \in 1 .. n : d[k] \in DirEntries(k)} :
           n \in 0 .. max}

Mops == {None, Some(<<Space>>)} \cup {Some(t) : t \in UNION {TextsOf(MopWords, n) : n \in 0 .. MaxMopWords}}

\* One valid Primary item returned by the paginator, any assigned-agent text
\* and any local directory.
InitLookup ==
  /\ \E mop \in Mops :
       PaginatorReturned(<<[VitrinaRow(PrimaryId(1), None, None, None, None) EXCEPT !.mop = mop]>>, <<>>)
  /\ db_agents \in Directories(MaxAgents)
  /\ api_agents = <<>>
  /\ agents_token = FALSE
  /\ api_script = NoApiScript
  /\ InitResolver
  /\ RequestAccepted

NextLookup == FirstPass

SpecLookup == InitLookup /\ [][NextLookup]_vars

\* Assigned-agent texts: none, "b A c", "c b", "A".
ContactMops ==
  {None, Some(Join(<<WordB, <<Upper(1)>>, WordC>>)), Some(Join(<<WordC, WordB>>)), Some(<<Upper(1)>>)}

\* The k-th entry of the remote directory: a login and any of the surnames
\* none, "B", "c" and names none, "a", or the entry "B a" without a login.
RemoteEntries(k) ==
  {[login |-> Some(Phone(k)), surname |-> s, name |-> n] :
     s \in {None, Some(<<Upper(2)>>), Some(WordC)}, n \in {None, Some(WordA)}}
    \cup {[login |-> None, surname |-> Some(<<Upper(2)>>), name |-> Some(WordA)]}

RemoteDirectories(max) ==
  UNION {{d \in [1 .. n -> UNION {RemoteEntries(k) : k \in 1 .. n}] : \A k \in 1 .. n : d[k] \in RemoteEntries(k)} :
           n \in 0 .. max}

\* The errors a request to the directory endpoint is seen to raise: a timeout,
\* a connection failure, a body that response.json() cannot parse.
ApiErrors == {"TimeoutException", "ConnectError", "JSONDecodeError"}

\* The directory endpoint: its first `timeouts` requests raise `error`, every
\* later one is answered, with a good or a bad status.
ApiScripts ==
  {s \in [timeouts : 0 .. fetch_max_retries, error : ApiErrors, ok : BOOLEAN] :
     s.timeouts = 0 => s.error = "TimeoutException"}

\* A page of one valid Primary item and at most one Secondary item, a local
\* directory of at most one row and any remote directory.
InitContacts ==
  /\ \E mop \in ContactMops, nS \in 0 .. 1, given \in {None, Some(Phone(1) \o <<Space>>)} :
       /\ nS = 0 => IsNone(given)
       /\ PaginatorReturned(
            <<[VitrinaRow(PrimaryId(1), None, None, None, None) EXCEPT !.mop = mop]>>,
            [k \in 1 .. nS |->
               [KrishaRow(SecondaryId(k), None, None, None) EXCEPT !.stats_agent_given = given]])
  /\ db_agents \in {<<>>, <<[agent_phone |-> Some(Phone(1)), full_name |-> Some(Join(<<WordA, <<Upper(2)>> >>))]>>}
  /\ api_agents \in RemoteDirectories(MaxRemoteAgents)
  /\ agents_token \in BOOLEAN
  /\ api_script \in ApiScripts
  /\ ~agents_token => api_script = NoApiScript
  /\ InitResolver
  /\ RequestAccepted

NextContacts ==
  \/ FirstPass
  \/ FetchStart
  \/ FetchRespond
  \/ FetchWake
  \/ SecondPass
  \/ Respond

SpecContacts == InitContacts /\ [][NextContacts]_vars

\* ------------------------------------ from the paginator call to the response
\* The validity endpoint of the one Primary item: any number of timeouts, then
\* a valid answer, a bad status or an error that is not a network error.
HandlerScripts == [timeouts : 0 .. (max_retries + 1), answer : {Valid200, Http500, OtherError}]

\* One Primary item with or without an assigned agent "b A c", at most one
\* Secondary item with or without a phone, a local directory that is empty or
\* knows the agent, and a remote directory that is empty or knows both.
InitHandler ==
  /\ \E mop \in {None, Some(Join(<<WordB, <<Upper(1)>>, WordC>>))},
        nS \in 0 .. 1, given \in {None, Some(Phone(1) \o <<Space>>)} :
       /\ nS = 0 => IsNone(given)
       /\ vitrina_properties = <<[VitrinaRow(PrimaryId(1), None, None, None, None) EXCEPT !.mop = mop]>>
       /\ krisha_properties =
            [k \in 1 .. nS |->
               [KrishaRow(SecondaryId(k), None, None, None) EXCEPT !.stats_agent_given = given]]
       /\ script \in [1 .. (1 + nS) -> HandlerScripts \cup {NoScript}]
       /\ script[1] \in HandlerScripts
       /\ nS = 1 => script[2] = NoScript
       /\ requests = [i \in 1 .. (1 + nS) |-> 0]
  /\ order_by = None
  /\ items = SortItems(UnifyAll(vitrina_properties, krisha_properties), order_by)
  /\ total = Len(vitrina_properties) + Len(krisha_properties)
  /\ token = TRUE
  /\ offset = 0
  /\ limit \in {1, 2}
  /\ batch_size \in {1, 2}
  /\ max_concurrent = 1
  /\ pc = "start"
  /\ db_agents \in {<<>>, <<[agent_phone |-> Some(Phone(2)), full_name |-> Some(Join(<<WordA, <<Upper(2)>> >>))]>>}
  /\ api_agents \in {<<>>, <<[login |-> Some(Phone(1)), surname |-> Some(<<Upper(2)>>), name |-> Some(WordA)]>>}
  /\ agents_token \in BOOLEAN
  /\ api_script \in ApiScripts
  /\ ~agents_token => api_script = NoApiScript
  /\ InitPaginator
  /\ InitResolver
  /\ RequestAccepted

NextHandler == Next \/ NextContacts

SpecHandler == InitHandler /\ [][NextHandler]_vars

\* ---------------------------------------------- validation and normalizer
\* Digits and the minus sign have their ASCII codes.
Digit0 == 48

Minus == 45

IsDigit(c) == c >= Digit0 /\ c <= Digit0 + 9

RECURSIVE DigitsValue(_)
DigitsValue(s) == IF s = <<>> THEN 0 ELSE 10 * DigitsValue(SubSeq(s, 1, Len(s) - 1)) + (s[Len(s)] - Digit0)

\* int(text) and float(text) on a text that is an integer numeral or no
\* number at all: the value, or None for a ValueError.
ParseNumber(s) ==
  LET t == Strip(s)
      neg == t # <<>> /\ t[1] = Minus
      digits == IF neg THEN Tail(t) ELSE t
  IN IF digits # <<>> /\ \A k \in 1 .. Len(digits) : IsDigit(digits[k])
       THEN Some(IF neg THEN -DigitsValue(digits) ELSE DigitsValue(digits))
       ELSE None

\* Lines 24-33.
parse_optional_int(value) ==
  IF value.t = "none" \/ (value.t = "str" /\ value.s = EmptyStr) THEN None
  ELSE IF value.t = "str"
    THEN IF Strip(value.s) # EmptyStr THEN ParseNumber(value.s) ELSE None
    ELSE Some(value.v)

\* Lines 35-44.
parse_optional_float(value) ==
  IF value.t = "none" \/ (value.t = "str" /\ value.s = EmptyStr) THEN None
  ELSE IF value.t = "str"
    THEN IF Strip(value.s) # EmptyStr THEN ParseNumber(value.s) ELSE None
    ELSE Some(value.v)

\* Query(100, ge=1, le=1000) and Query(0, ge=0).
limit_ge == 1

limit_le == 1000

offset_ge == 0

\* Variant: out-of-range values are clamped and the handler is called.
Validate_Clamp ==
  /\ pc = "request"
  /\ limit' = IF request.limit < limit_ge THEN limit_ge
               ELSE IF request.limit > limit_le THEN limit_le ELSE request.limit
  /\ offset' = IF request.offset < offset_ge THEN offset_ge ELSE request.offset
  /\ pc' = "normalize"
  /\ UNCHANGED <<items, vitrina_properties, krisha_properties, order_by, token, max_concurrent,
                 batch_size, script, db_agents, api_agents, agents_token, api_script, request,
                 filters, contact_vars, paginator_vars>>

\* Lines 646-647: the declared constraints are checked before the handler is
\* called; a value outside them is answered with a validation error.
Validate ==
  /\ pc = "request"
  /\ IF request.limit >= limit_ge /\ request.limit <= limit_le /\ request.offset >= offset_ge
       THEN /\ limit' = request.limit
            /\ offset' = request.offset
            /\ pc' = "normalize"
       ELSE /\ pc' = "rejected"
            /\ UNCHANGED <<limit, offset>>
  /\ UNCHANGED <<items, vitrina_properties, krisha_properties, order_by, token, max_concurrent,
                 batch_size, script, db_agents, api_agents, agents_token, api_script, request,
                 filters, contact_vars, paginator_vars>>

\* Variant: a zero bound is discarded like a negative one.
DropNegative_DropZero(o) == IF ~IsNone(o) /\ Val(o) <= 0 THEN None ELSE o

\* Lines 665-672.
DropNegative(o) == IF ~IsNone(o) /\ Val(o) < 0 THEN None ELSE o

\* Lines 673-678.
DropOutside(o, lo, hi) == IF ~IsNone(o) /\ (Val(o) < lo \/ Val(o) > hi) THEN None ELSE o

rooms_lo == 1

rooms_hi == 10

score_lo == 0

score_hi == 5

\* Lines 656-678.
Normalize ==
  /\ pc = "normalize"
  /\ filters' =
       [price_min |-> DropNegative(parse_optional_int(request.raw.price_min)),
        price_max |-> DropNegative(parse_optional_int(request.raw.price_max)),
        area_min |-> DropNegative(parse_optional_float(request.raw.area_min)),
        area_max |-> DropNegative(parse_optional_float(request.raw.area_max)),
        rooms_count_min |-> DropOutside(parse_optional_int(request.raw.rooms_count_min), rooms_lo, rooms_hi),
        rooms_count_max |-> DropOutside(parse_optional_int(request.raw.rooms_count_max), rooms_lo, rooms_hi),
        score_min |-> DropOutside(parse_optional_float(request.raw.score_min), score_lo, score_hi)]
  /\ pc' = "query"
  /\ UNCHANGED <<items, data_inputs, contact_vars, paginator_vars>>

\* Raw parameter values: integers around every range end, and the strings
\* "", " ", "x", "7", " 7 ", "-1", "7x".
RawInts == {-1, 0, 1, 5, 6, 10, 11}

RawTexts ==
  {EmptyStr, <<Space>>, <<24>>, <<Digit0 + 7>>, <<Space, Digit0 + 7, Space>>,
   <<Minus, Digit0 + 1>>, <<Digit0 + 7, 24>>}

RawValues == {RawNone} \cup {RawInt(n) : n \in RawInts} \cup {RawStr(s) : s \in RawTexts}

LimitInputs == {limit_ge - 2, limit_ge - 1, limit_ge, limit_ge + 1, limit_le, limit_le + 1}

OffsetInputs == {offset_ge - 1, offset_ge, offset_ge + 1}

\* A request as received: at most MaxRawParams filter parameters are given.
InitRequest ==
  /\ \E given \in {S \in SUBSET FilterNames : Cardinality(S) <= MaxRawParams} :
       \E vals \in [given -> RawValues \ {RawNone}], l \in LimitInputs, o \in OffsetInputs :
         request = [limit |-> l, offset |-> o,
                    raw |-> [f \in FilterNames |-> IF f \in given THEN vals[f] ELSE RawNone]]
  /\ filters = NoFilters
  /\ limit = request.limit
  /\ offset = request.offset
  /\ vitrina_properties = <<>>
  /\ krisha_properties = <<>>
  /\ items = <<>>
  /\ order_by = None
  /\ token = FALSE
  /\ max_concurrent = handler_max_concurrent
  /\ batch_size = handler_batch_size
  /\ script = <<>>
  /\ requests = <<>>
  /\ total = 0
  /\ pc = "request"
  /\ InitPaginator
  /\ InitResolver
  /\ NoDirectories

NextRequest ==
  \/ Validate
  \/ Normalize

SpecRequest == InitRequest /\ [][NextRequest]_vars

\* =================================================================== claims
\* What a check of Primary item i returns, read off its endpoint's behaviour.
AnswerValid(a) == a.status = 200 /\ ~a.expired /\ ~a.isSold /\ a.photos > 0

AllTransient(i) ==
  /\ items[i].source = Vitrina
  /\ items[i].id # EmptyId
  /\ script[i].timeouts > max_retries

YieldsValid(i) ==
  /\ items[i].source = Vitrina
  /\ items[i].id # EmptyId
  /\ (AllTransient(i) \/ AnswerValid(script[i].answer))

ValidPrimaries == SelectSeq(vitrina_items, LAMBDA i : YieldsValid(i))

PositionIn(x, s) == CHOOSE k \in 1 .. Len(s) : s[k] = x

Done == pc = "done"

\* C1: with the token present the returned page is exactly the slice
\* [offset : offset+limit] of the valid Primary items (fail-open ones included)
\* in sorted order followed by all Secondary items in sorted order.
C1_PageIsSlice ==
  (Done /\ token) =>
    page = ItemsAt(Slice(ValidPrimaries \o krisha_items, offset, offset + limit))

\* P1 valid, P2 HTTP 500, P3 timing out on all 3 attempts, 2 Secondary items,
\* limit 2, offset 0: the page is [P1, P3].
C1_Witness ==
  /\ Done /\ token
  /\ Len(vitrina_items) = 3 /\ Len(krisha_items) = 2
  /\ limit = 2 /\ offset = 0
  /\ script[1] = [timeouts |-> 0, answer |-> Valid200]
  /\ script[2] = [timeouts |-> 0, answer |-> Http500]
  /\ script[3].timeouts = max_retries + 1
  /\ requests[3] = 3
  /\ page = <<items[1], items[3]>>

\* The number of items valid under unlimited retries: an item is then judged
\* by the answer its endpoint gives once reachable.
UnlimitedValidCount ==
  Cardinality({i \in 1 .. Len(items) :
     \/ items[i].source = Krisha
     \/ (items[i].id # EmptyId /\ AnswerValid(script[i].answer))})

BoundedValidCount ==
  Cardinality({i \in 1 .. Len(items) : items[i].source = Krisha \/ YieldsValid(i)})

\* C2 as stated: the page is no longer than limit and no longer than the number
\* of items that would be valid if checked with unlimited retries.
C2_Original == Done => (Len(page) <= limit /\ Len(page) <= UnlimitedValidCount)

\* C2 amended: the page is no longer than limit and no longer than the number
\* of items the bounded check reports valid (an item whose max_retries + 1
\* attempts all fail transiently counts as valid, Secondary items count as valid).
C2_PageLength == Done => (Len(page) <= limit /\ Len(page) <= BoundedValidCount)

C2_Witness ==
  /\ Done /\ token
  /\ Len(page) = limit
  /\ Len(page) = BoundedValidCount
  /\ \E i \in 1 .. Len(items) : AllTransient(i) /\ InSeq(items[i], page)

\* The paginator run with every batch checked one item after the other.
RECURSIVE SequentialValid(_, _, _)
SequentialValid(p, batch, valid) ==
  IF p > Len(vitrina_items)
    THEN IF batch # <<>> /\ Len(valid) < target_count
           THEN valid \o SelectSeq(batch, LAMBDA i : YieldsValid(i))
           ELSE valid
    ELSE LET b == Append(batch, vitrina_items[p]) IN
         IF Len(b) >= batch_size
           THEN LET v == valid \o SelectSeq(b, LAMBDA i : YieldsValid(i)) IN
                IF Len(v) >= target_count THEN v ELSE SequentialValid(p + 1, <<>>, v)
           ELSE IF Len(valid) >= target_count THEN valid ELSE SequentialValid(p + 1, b, valid)

SequentialPage ==
  LET valid == SequentialValid(1, <<>>, <<>>)
      filled == IF Len(valid) < target_count
                  THEN valid \o Slice(krisha_items, 0, target_count - Len(valid))
                  ELSE valid
  IN ItemsAt(Slice(SortByIdx(filled), offset, offset + limit))

\* C3: for a fixed sorted input and fixed per-item outcomes the page is the
\* same, in contents and order, for every order in which the checks of a batch
\* start and return: it is the page of the one-at-a-time run.
C3_OrderDeterminism == (Done /\ token) => page = SequentialPage

\* The second check of the last batch returned first, with a different result.
C3_Witness ==
  /\ Done /\ token
  /\ completion = <<2, 1>>
  /\ Len(vitrina_items) = 2
  /\ ~YieldsValid(1) /\ YieldsValid(2)
  /\ Len(page) >= 1 /\ page[1] = items[2]

\* C4: a Primary item whose request fails transiently on every attempt is
\* reported valid by its check and is included like any valid item: it is in
\* the page iff its rank among the valid Primary items falls in the slice.
C4_FailOpen ==
  /\ \A k \in DOMAIN tasks :
       (tasks[k].st = "done" /\ AllTransient(vitrina_batch[k])) => tasks[k].res = <<TRUE, TRUE>>
  /\ \A i \in DOMAIN checked_vitrina :
       AllTransient(i) => (checked_vitrina[i] /\ InSeq(i, valid_vitrina_items))
  /\ Done =>
       \A i \in DOMAIN checked_vitrina :
         AllTransient(i) =>
           (InSeq(items[i], page) <=>
              (PositionIn(i, valid_vitrina_items) > offset
                 /\ PositionIn(i, valid_vitrina_items) <= offset + limit))

C4_Witness ==
  /\ Done
  /\ \E i \in DOMAIN checked_vitrina :
       /\ AllTransient(i)
       /\ requests[i] = max_retries + 1
       /\ InSeq(items[i], page)

\* The endpoint of item i answers a non-success status on one of the attempts.
NonSuccessAnswered(i) ==
  /\ items[i].source = Vitrina
  /\ items[i].id # EmptyId
  /\ script[i].answer.status # 200
  /\ script[i].timeouts <= max_retries

\* C5: a non-success HTTP status on any attempt makes the item invalid at
\* once: no request follows it, and the item never appears in the page.
C5_FailClosed ==
  \A i \in 1 .. Len(items) :
    NonSuccessAnswered(i) =>
      /\ requests[i] <= script[i].timeouts + 1
      /\ \A k \in DOMAIN tasks :
           (vitrina_batch[k] = i /\ tasks[k].st = "done") => tasks[k].res = <<FALSE, FALSE>>
      /\ i \in DOMAIN checked_vitrina => ~checked_vitrina[i]
      /\ ~InSeq(i, valid_vitrina_items)
      /\ ~InSeq(items[i], page)

\* A 500 on the second attempt: two requests, excluded, the page not empty.
C5_Witness ==
  /\ Done
  /\ \E i \in DOMAIN checked_vitrina :
       /\ NonSuccessAnswered(i)
       /\ script[i].timeouts = 1
       /\ requests[i] = 2
  /\ Len(page) > 0

\* C6: without the token no validity request is issued, the page is the
\* Secondary subsequence sliced [offset : offset+limit] and holds no Primary
\* item, and the run ends with a page and a total.
C6_NoToken ==
  ~token =>
    /\ \A i \in 1 .. Len(items) : requests[i] = 0
    /\ tasks = <<>>
    /\ pc \in {"start", "done"}
    /\ Done =>
         /\ page = Slice(SelectSeq(items, LAMBDA x : x.source = Krisha), offset, offset + limit)
         /\ \A k \in 1 .. Len(page) : page[k].source # Vitrina
         /\ total = Len(items)

C6_Witness ==
  /\ ~token /\ Done
  /\ Len(vitrina_items) >= 1
  /\ offset = 1
  /\ Len(page) = 1

InFlight == Cardinality({k \in DOMAIN tasks : tasks[k].st = "inflight"})

\* C7: the number of validity requests in flight never exceeds max_concurrent.
C7_InFlightBound == InFlight <= max_concurrent

\* The batch is larger than the limit: one task waits while the limit is used up.
C7_Witness ==
  /\ InFlight = max_concurrent
  /\ batch_size > max_concurrent
  /\ \E k \in DOMAIN tasks : tasks[k].st = "waiting"

\* C8: the total returned equals the number of Primary rows plus the number of
\* Secondary rows fetched, whatever offset, limit, check outcomes and token.
C8_Total == Done => total = Len(vitrina_properties) + Len(krisha_properties)

C8_Witness ==
  /\ Done /\ token
  /\ offset > 0
  /\ \E i \in DOMAIN checked_vitrina : ~checked_vitrina[i]
  /\ Len(page) < total
  /\ total = 5

\* ------------------------------------------------------------ sorter claims
Sorted == pc = "sorted"

\* Comparison of two optional values with absent values last: "lt" when the
\* first must precede, "gt" when it must follow, "eq" when the field ties.
NullsLast(oa, ob, Before(_, _)) ==
  IF IsNone(oa) /\ IsNone(ob) THEN "eq"
  ELSE IF IsNone(oa) THEN "gt"
  ELSE IF IsNone(ob) THEN "lt"
  ELSE IF Before(Val(oa), Val(ob)) THEN "lt"
  ELSE IF Before(Val(ob), Val(oa)) THEN "gt"
  ELSE "eq"

NumAsc(x, y) == x < y

NumDesc(x, y) == x > y

\* The default order as documented: category ascending, then score
\* descending, then price ascending, then area descending, absent values last.
DocumentedBefore(a, b) ==
  LET c == NullsLast(a.category, b.category, StrLess)
      s == NullsLast(a.score, b.score, NumDesc)
      p == NullsLast(a.price, b.price, NumAsc)
      r == NullsLast(a.area, b.area, NumDesc)
  IN IF c # "eq" THEN c = "lt"
     ELSE IF s # "eq" THEN s = "lt"
     ELSE IF p # "eq" THEN p = "lt"
     ELSE r = "lt"

\* C9: with no order_by the items are ordered by source, then category
\* ascending, score descending, price ascending, area descending, and in each
\* field an absent value sorts after every present value.
C9_DefaultOrder ==
  (Sorted /\ IsNone(order_by)) =>
    \A i, j \in 1 .. Len(items) :
      i < j =>
        /\ source_order(items[i]) <= source_order(items[j])
        /\ items[i].source = items[j].source => ~DocumentedBefore(items[j], items[i])

FieldLess(f, x, y) == IF f = "category" THEN StrLess(x, y) ELSE x < y

\* C10: with order_by naming category, score, price or area, the items of a
\* source that have a value for the field are in ascending order of it without
\* a leading '-' and in descending order with one.
C10_CustomOrder ==
  (Sorted /\ ~IsNone(order_by) /\ Val(order_by).field \in {"category", "score", "price", "area"}) =>
    LET f == Val(order_by).field
        desc == Val(order_by).desc
    IN \A i, j \in 1 .. Len(items) :
         (i < j /\ items[i].source = items[j].source
            /\ ~IsNone(ItemGet(items[i], f)) /\ ~IsNone(ItemGet(items[j], f))) =>
           IF desc
             THEN ~FieldLess(f, Val(ItemGet(items[i], f)), Val(ItemGet(items[j], f)))
             ELSE ~FieldLess(f, Val(ItemGet(items[j], f)), Val(ItemGet(items[i], f)))

KnownFields == {"category", "score", "price", "area", "contract_price"}

\* C11: with a custom order_by, in both directions, every item of a source
\* whose requested field is absent comes after every item of the same source
\* whose field is present.
C11_AbsentLast ==
  (Sorted /\ ~IsNone(order_by)) =>
    LET f == field_mapping(Val(order_by).field) IN
    \A i, j \in 1 .. Len(items) :
      (i < j /\ items[i].source = items[j].source /\ IsNone(ItemGet(items[i], f))) =>
        IsNone(ItemGet(items[j], f))

\* Descending by price: the row fetched first has no price and ends up behind
\* the row that has one.
C11_Witness ==
  /\ Sorted
  /\ order_by = Some([desc |-> TRUE, field |-> "price"])
  /\ Len(vitrina_properties) = 2
  /\ IsNone(vitrina_properties[1].contract_price)
  /\ ~IsNone(vitrina_properties[2].contract_price)
  /\ items[1].id = PrimaryId(2) /\ items[2].id = PrimaryId(1)
  /\ ~IsNone(items[1].price) /\ IsNone(items[2].price)

\* C12: when order_by names a field outside category, score, price, area and
\* contract_price, with or without a leading '-', the resulting order is the
\* default order produced when order_by is not given.
C12_UnknownFallsBack ==
  (Sorted /\ ~IsNone(order_by) /\ Val(order_by).field \notin KnownFields) =>
    items = SortItems(UnifyAll(vitrina_properties, krisha_properties), None)

PrimaryFirst(s) ==
  \A i, j \in 1 .. Len(s) : i < j => ~(s[i].source = Krisha /\ s[j].source = Vitrina)

\* C13: for every order_by value (absent, known, unknown, ascending or
\* descending) and every set of check outcomes, every Primary item of the
\* sorted list and of the returned page precedes every Secondary item.
C13_SourceDominates ==
  /\ pc \notin {"unify", "sort"} => PrimaryFirst(items)
  /\ Done => PrimaryFirst(page)

\* Ascending by price: a checked Primary item without a price is returned
\* ahead of a Secondary item that has one.
C13_Witness ==
  /\ Done /\ token
  /\ order_by = Some([desc |-> FALSE, field |-> "price"])
  /\ Len(page) = 2
  /\ page[1].source = Vitrina /\ IsNone(page[1].price)
  /\ page[2].source = Krisha /\ ~IsNone(page[2].price)
  /\ requests[1] > 0

\* ---------------------------------------------------------- contact claims
FirstPassDone == pc \in {"fetch", "respond"}

\* The set of lower-cased words of a text.
WordSet(text) == {LowerStr(Split(text)[k]) : k \in 1 .. Len(Split(text))}

\* A directory row with a phone whose full name is two different words.
TwoWordEntry(e) ==
  /\ Truthy(e.agent_phone) /\ Truthy(e.full_name)
  /\ Len(Split(Val(e.full_name))) = 2
  /\ Cardinality(WordSet(Val(e.full_name))) = 2

\* A directory row with a phone and a two-word name, both words in the text.
Matches(e, text) ==
  /\ Truthy(e.agent_phone) /\ Truthy(e.full_name)
  /\ Len(Split(Val(e.full_name))) = 2
  /\ WordSet(Val(e.full_name)) \subseteq WordSet(text)

PhoneOf(e) == Some(Strip(Val(e.agent_phone)))

\* C14 as stated: a directory entry whose full name has exactly the two words
\* {w1, w2} yields its phone for an item whose name contains both words,
\* case-insensitively, in any order and at any positions, and is not matched
\* by an item whose name shares only one of the two words.
C14_Original ==
  FirstPassDone =>
    \A k \in 1 .. Len(page), a \in 1 .. Len(db_agents) :
      (page[k].source = Vitrina /\ Truthy(page[k].mop) /\ TwoWordEntry(db_agents[a])) =>
        LET e == db_agents[a]
            shared == WordSet(Val(e.full_name)) \cap WordSet(Val(page[k].mop))
        IN /\ Cardinality(shared) = 2 => page[k].contact_phone = PhoneOf(e)
           /\ Cardinality(shared) = 1 => page[k].contact_phone # PhoneOf(e)

\* C14 amended: for an item whose name contains both words of a two-word
\* directory entry (any case, order and positions) the lookup returns the
\* phone of a directory entry whose two words are both in the name, and the
\* entry's own phone when it is the only such entry; the lookup returns no
\* match when no entry has both of its two words in the name, in particular
\* when the name shares only one word with each entry.
C14_Lookup ==
  FirstPassDone =>
    \A k \in 1 .. Len(page) :
      (page[k].source = Vitrina /\ Truthy(page[k].mop)) =>
        LET text == Val(page[k].mop)
            matching == {a \in 1 .. Len(db_agents) : Matches(db_agents[a], text)}
        IN /\ \A a \in 1 .. Len(db_agents) :
                (TwoWordEntry(db_agents[a]) /\ a \in matching) =>
                  /\ \E b \in matching : page[k].contact_phone = PhoneOf(db_agents[b])
                  /\ matching = {a} => page[k].contact_phone = PhoneOf(db_agents[a])
           /\ matching = {} => IsNone(page[k].contact_phone)

\* The entry "a B" gives its phone to the item named "b c A"; a second entry
\* shares one word with the name.
C14_Witness ==
  /\ FirstPassDone
  /\ Len(db_agents) = 2
  /\ db_agents[1].full_name = Some(Join(<<WordA, <<Upper(2)>> >>))
  /\ db_agents[2].full_name = Some(Join(<<WordC, WordC>>))
  /\ Truthy(db_agents[2].agent_phone)
  /\ page[1].mop = Some(Join(<<WordB, WordC, <<Upper(1)>> >>))
  /\ page[1].contact_phone = Some(Phone(1))

\* The name of page item k has no match in the local directory.
NoLocalMatch(k) ==
  /\ page[k].source = Vitrina
  /\ Truthy(page[k].mop)
  /\ IsNone(find_agent_phone_from_db_optimized(page[k].mop, prepare_agents_indexes(db_agents).name_to_phone))

IsQueued(k) ==
  \E q \in 1 .. Len(need_api_fallback) :
    need_api_fallback[q] = [type |-> "vitrina", k |-> k, search_value |-> Val(page[k].mop)]

\* A remote entry whose surname and given name are both words of the text.
RemoteNamed(e, text) ==
  /\ Truthy(e.surname) /\ Truthy(e.name)
  /\ Len(Split(Val(e.surname))) = 1 /\ Len(Split(Val(e.name))) = 1
  /\ WordSet(Val(e.surname)) \cup WordSet(Val(e.name)) \subseteq WordSet(text)

SecondPassDone == pc = "respond"

\* C15 as stated: a Primary page item with a name and no local match is queued
\* for fallback, and if the remote directory holds an entry whose surname and
\* given name are both words of the name, contactPhone becomes its login.
C15_Original ==
  /\ FirstPassDone => \A k \in 1 .. Len(page) : NoLocalMatch(k) => IsQueued(k)
  /\ SecondPassDone =>
       \A k \in 1 .. Len(page), r \in 1 .. Len(api_agents) :
         (NoLocalMatch(k) /\ RemoteNamed(api_agents[r], Val(page[k].mop))) =>
           page[k].contact_phone = api_agents[r].login

\* C15 amended: a Primary page item with a name and no local match is queued
\* for fallback; if the remote directory was fetched and holds an entry with a
\* login whose surname and given name are both words of the name (in either
\* order), contactPhone becomes the login of such an entry, the entry's own
\* login when it is the only one; if the fetch returned nothing (no
\* credential, a bad status, three failed attempts) or no entry qualifies,
\* contactPhone stays absent.
C15_Fallback ==
  /\ FirstPassDone => \A k \in 1 .. Len(page) : NoLocalMatch(k) => IsQueued(k)
  /\ SecondPassDone =>
       \A k \in 1 .. Len(page) :
         NoLocalMatch(k) =>
           LET named == {r \in 1 .. Len(api_agents_cache) :
                           /\ Truthy(api_agents_cache[r].login)
                           /\ RemoteNamed(api_agents_cache[r], Val(page[k].mop))}
           IN /\ named # {} => \E r \in named : page[k].contact_phone = Some(Strip(Val(api_agents_cache[r].login)))
              /\ \A r \in named : named = {r} => page[k].contact_phone = Some(Strip(Val(api_agents_cache[r].login)))
              /\ named = {} => IsNone(page[k].contact_phone)
              /\ api_agents_cache \in {<<>>, api_agents}

\* Empty local directory, the name "b A c", the remote entry {surname "B",
\* name "a", login 71} received on the second attempt: contactPhone is 71.
C15_Witness ==
  /\ SecondPassDone
  /\ db_agents = <<>>
  /\ page[1].mop = Some(Join(<<WordB, <<Upper(1)>>, WordC>>))
  /\ api_agents = <<[login |-> Some(Phone(1)), surname |-> Some(<<Upper(2)>>), name |-> Some(WordA)]>>
  /\ api_requests = 2
  /\ fetch_calls = 1
  /\ page[1].contact_phone = Some(Phone(1))

\* ------------------------------------------------------------ request claims
OutOfRange == request.limit < 1 \/ request.limit > 1000 \/ request.offset < 0

ClampedLimit == IF request.limit < 1 THEN 1 ELSE IF request.limit > 1000 THEN 1000 ELSE request.limit

ClampedOffset == IF request.offset < 0 THEN 0 ELSE request.offset

\* C16 as stated: a request whose limit lies outside [1,1000] or whose offset
\* is negative is not rejected; the pipeline runs with limit clamped into
\* [1,1000] and offset clamped to >= 0.
C16_Original ==
  OutOfRange =>
    /\ pc # "rejected"
    /\ pc # "request" => (limit = ClampedLimit /\ offset = ClampedOffset)

\* C16 amended: a request whose limit lies outside [1,1000] or whose offset is
\* negative is rejected by the parameter validation before the handler runs
\* (nothing is normalized, no page is built); every other request reaches the
\* handler with its limit and offset unchanged.
C16_Validated ==
  /\ OutOfRange => (pc \in {"request", "rejected"} /\ filters = NoFilters /\ page = <<>>)
  /\ ~OutOfRange => pc # "rejected"
  /\ pc \in {"normalize", "query"} => (limit = request.limit /\ offset = request.offset)

\* limit = 1001 with a valid offset is answered with a validation error.
C16_Witness ==
  /\ pc = "rejected"
  /\ request.limit = 1001
  /\ request.offset = 0

\* What a raw value means: the integer given, the integer a numeral string
\* writes ("7", " 7 ", "-1"), nothing for an absent, empty or unparsable one.
Meant(raw) ==
  IF raw.t = "int" THEN Some(raw.v)
  ELSE IF raw = RawStr(<<Digit0 + 7>>) \/ raw = RawStr(<<Space, Digit0 + 7, Space>>) THEN Some(7)
  ELSE IF raw = RawStr(<<Minus, Digit0 + 1>>) THEN Some(-1)
  ELSE None

Policy(f, n) ==
  IF f \in {"price_min", "price_max", "area_min", "area_max"} THEN n >= 0
  ELSE IF f \in {"rooms_count_min", "rooms_count_max"} THEN n >= 1 /\ n <= 10
  ELSE n >= 0 /\ n <= 5

\* C17: a price or area bound is dropped iff it is negative (0 is kept), a
\* room-count bound iff it is < 1 or > 10, a score bound iff it is < 0 or > 5;
\* an unparsable or empty string becomes absent; normalization never fails.
C17_RangePolicy ==
  /\ pc = "normalize" => ENABLED Normalize
  /\ pc = "query" =>
       \A f \in FilterNames :
         LET v == Meant(request.raw[f]) IN
         filters[f] = IF ~IsNone(v) /\ Policy(f, Val(v)) THEN v ELSE None

\* price_min = 0 is kept.
C17_Witness ==
  /\ pc = "query"
  /\ request.raw.price_min = RawInt(0)
  /\ filters.price_min = Some(0)

\* ------------------------------------------------------------ checker claims
\* What a 200 answer says: a missing expired or isSold reads as false, a
\* missing photoIdList as empty.
SaysExpired(a) == "expired" \in a.present /\ a.expired

SaysSold(a) == "isSold" \in a.present /\ a.isSold

SaysPhotos(a) == "photoIdList" \in a.present /\ a.photos >= 1

Answered200(i) ==
  /\ items[i].source = Vitrina /\ items[i].id # EmptyId
  /\ script[i].timeouts <= max_retries
  /\ script[i].answer.kind = "http" /\ script[i].answer.status = 200

\* C18: when the endpoint answers HTTP 200 the check returns isValid = not
\* expired and not isSold and photoIdList non-empty, with hasPhotos =
\* photoIdList non-empty, for every combination of the three fields.
C18_Valid200 ==
  \A k \in DOMAIN tasks :
    (tasks[k].st = "done" /\ Answered200(vitrina_batch[k])) =>
      LET a == script[vitrina_batch[k]].answer IN
      tasks[k].res = << ~SaysExpired(a) /\ ~SaysSold(a) /\ SaysPhotos(a), SaysPhotos(a) >>

\* A sold object with photos and no expired key, answered on the second
\* attempt: invalid, has photos.
C18_Witness ==
  \E k \in DOMAIN tasks :
    /\ tasks[k].st = "done"
    /\ Answered200(vitrina_batch[k])
    /\ script[vitrina_batch[k]].timeouts = 1
    /\ script[vitrina_batch[k]].answer.present = {"isSold", "photoIdList"}
    /\ script[vitrina_batch[k]].answer.isSold
    /\ script[vitrina_batch[k]].answer.photos = 1
    /\ tasks[k].res = <<FALSE, TRUE>>

\* What the first attempt that is not a transient failure decides.
Decided(a) ==
  IF a.kind = "http" /\ a.status = 200
    THEN << ~SaysExpired(a) /\ ~SaysSold(a) /\ SaysPhotos(a), SaysPhotos(a) >>
    ELSE <<FALSE, FALSE>>

\* Attempts 1 .. timeouts of an item's endpoint fail transiently.
TransientFailures(i) == script[i].timeouts

Smaller(a, b) == IF a <= b THEN a ELSE b

\* C19: one check makes at most max_retries + 1 requests; every request after
\* the first follows a transient failure of the previous one; the result is
\* what the first non-transient attempt decides (200 evaluated, non-200 or
\* other error invalid), or valid when every attempt failed transiently.
C19_Retries ==
  /\ \A i \in DOMAIN requests :
       /\ requests[i] <= max_retries + 1
       /\ requests[i] <= TransientFailures(i) + 1
  /\ \A k \in DOMAIN tasks :
       LET i == vitrina_batch[k] IN
       (tasks[k].st = "done" /\ items[i].id # EmptyId) =>
         /\ requests[i] = Smaller(TransientFailures(i), max_retries) + 1
         /\ tasks[k].res = IF TransientFailures(i) > max_retries
                             THEN <<TRUE, TRUE>>
                             ELSE Decided(script[i].answer)

\* Two timeouts, then an error that is not a network error on the last
\* allowed attempt: three requests, invalid.
C19_Witness ==
  \E k \in DOMAIN tasks :
    /\ tasks[k].st = "done"
    /\ script[vitrina_batch[k]] = [timeouts |-> max_retries, answer |-> OtherError]
    /\ requests[vitrina_batch[k]] = max_retries + 1
    /\ tasks[k].res = <<FALSE, FALSE>>

\* ------------------------------------------------------------ batching claims
\* The batch of the Primary item at position p of the Primary list: full
\* batches of batch_size in list order, the rest in the partial batch.
BatchOf(p) == (p - 1) \div batch_size

\* The check of item i has returned with all of its retries made.
CheckReturned(i) ==
  /\ i \in DOMAIN checked_vitrina
  /\ items[i].id # EmptyId =>
       requests[i] = Smaller(TransientFailures(i), max_retries) + 1

\* C20: no validity request for an item of a later batch is started before
\* every check of the preceding batches, retries included, has returned.
C20_NoPipelining ==
  \A p, q \in 1 .. Len(vitrina_items) :
    (BatchOf(p) < BatchOf(q) /\ requests[vitrina_items[q]] > 0) =>
      CheckReturned(vitrina_items[p])

\* A batch of two whose second item went through every retry, and the third
\* item, of the next batch, being requested.
C20_Witness ==
  /\ Len(vitrina_items) = 3
  /\ batch_size = 2
  /\ script[vitrina_items[2]].timeouts = max_retries + 1
  /\ requests[vitrina_items[2]] = max_retries + 1
  /\ requests[vitrina_items[3]] = 1
  /\ \E k \in DOMAIN tasks : vitrina_batch[k] = vitrina_items[3] /\ tasks[k].st = "inflight"

\* ----------------------------------------------------------- early-stop claims
\* The valid Primary items of the batches before the batch of position q.
ValidBefore(q) ==
  Cardinality({p \in 1 .. Len(vitrina_items) :
                 BatchOf(p) < BatchOf(q) /\ YieldsValid(vitrina_items[p])})

\* A validity check was issued for the Primary item at position q.
Issued(q) ==
  \/ vitrina_items[q] \in DOMAIN checked_vitrina
  \/ \E k \in DOMAIN tasks : vitrina_batch[k] = vitrina_items[q]

\* C21: no check is issued for an item of a batch that follows a completed
\* batch with which the valid Primary items reached offset + limit; otherwise
\* the batches continue to the end of the Primary list, the partial batch
\* included.
C21_EarlyStop ==
  /\ \A q \in 1 .. Len(vitrina_items) : Issued(q) => ValidBefore(q) < target_count
  /\ (Done /\ token) =>
       \A q \in 1 .. Len(vitrina_items) : ValidBefore(q) < target_count => Issued(q)

\* A full batch of two reached the target and the third item was never checked.
C21_Witness ==
  /\ Done /\ token
  /\ Len(vitrina_items) = 3
  /\ batch_size = 2
  /\ target_count = 2
  /\ ValidBefore(3) = 2
  /\ ~Issued(3)

\* ------------------------------------------------------------ shortfall claims
ValidPrimaryCount ==
  Cardinality({p \in 1 .. Len(vitrina_items) : YieldsValid(vitrina_items[p])})

AllPrimaryChecked ==
  \A p \in 1 .. Len(vitrina_items) : vitrina_items[p] \in DOMAIN checked_vitrina

\* The Secondary items the shortfall step accepts, in the order it takes them.
AcceptedSecondary ==
  SelectSeq(AllValidItems(valid_vitrina_items), LAMBDA i : items[i].source = Krisha)

SemaphoreCreated == pc \in {"loop", "gather", "tail", "gather_tail", "fill", "done"} /\ token

PermitsHeld == max_concurrent - permits

InBackoff == Cardinality({k \in DOMAIN tasks : tasks[k].st = "backoff"})

\* C23 as stated: a check waiting in backoff holds no permit, so the permits
\* held equal the requests in flight.
C23_Original == SemaphoreCreated => PermitsHeld = InFlight

\* C23: the semaphore is acquired before and released after each individual
\* check, all of its attempts and backoff sleeps included: the permits held
\* equal the checks that have a request in flight or wait in backoff, so the
\* requests in flight never exceed the permits held.
C23_PermitPerCheck ==
  SemaphoreCreated =>
    /\ PermitsHeld = InFlight + InBackoff
    /\ InFlight <= PermitsHeld
    /\ PermitsHeld <= max_concurrent

\* With one permit, a check sleeps in backoff with the permit while the other
\* check of the batch waits for it and no request is in flight.
C23_Witness ==
  /\ SemaphoreCreated
  /\ max_concurrent = 1
  /\ permits = 0
  /\ InFlight = 0
  /\ \E k, w \in DOMAIN tasks : tasks[k].st = "backoff" /\ tasks[w].st = "waiting"

\* ------------------------------------------------------- remote failure claims
Fetched == pc \in {"second", "respond", "responded"} /\ fetch_calls >= 1 /\ agents_token

\* The validity check never retries a permanent failure: its requests are the
\* transient failures plus one, and a bad status or other error is invalid.
CheckFailsClosed ==
  /\ \A i \in DOMAIN requests : requests[i] <= TransientFailures(i) + 1
  /\ \A k \in DOMAIN tasks :
       LET i == vitrina_batch[k] IN
       (tasks[k].st = "done" /\ TransientFailures(i) <= max_retries
          /\ script[i].answer \in {Http500, OtherError}) =>
         (requests[i] = TransientFailures(i) + 1 /\ tasks[k].res = <<FALSE, FALSE>>)

\* C24 as stated: a bad status or an unparsable body is resolved at once
\* without a retry, in the validity check (invalid) and in the directory fetch
\* (empty directory); only timeouts and connection failures cause another
\* request.
C24_Original ==
  /\ CheckFailsClosed
  /\ api_requests > 1 => api_script.error \in {"TimeoutException", "ConnectError"}
  /\ (Fetched /\ api_script.timeouts >= 1 /\ api_script.error = "JSONDecodeError") =>
       (api_requests = 1 /\ api_agents_cache = <<>>)
  /\ (Fetched /\ api_script.timeouts = 0 /\ ~api_script.ok) =>
       (api_requests = 1 /\ api_agents_cache = <<>>)

\* C24: a bad HTTP status is resolved at once without a retry in the validity
\* check (invalid) and in the directory fetch (empty directory), and so is any
\* non-network error in the validity check; the directory fetch sends another
\* request after every raised error, an unparsable body like a timeout or a
\* connection failure, up to fetch_max_retries requests, and is empty when all
\* of them raised.
C24_PermanentFailures ==
  /\ CheckFailsClosed
  /\ api_requests <= fetch_max_retries
  /\ api_requests <= api_script.timeouts + 1
  /\ Fetched =>
       /\ api_requests = Smaller(api_script.timeouts + 1, fetch_max_retries)
       /\ api_agents_cache =
            IF api_script.timeouts < fetch_max_retries /\ api_script.ok THEN api_agents ELSE <<>>

\* The directory's first body could not be parsed, the second request was
\* answered and the queued Primary item got its phone from it.
C24_Witness ==
  /\ pc = "responded"
  /\ api_script = [timeouts |-> 1, error |-> "JSONDecodeError", ok |-> TRUE]
  /\ api_requests = 2
  /\ api_agents_cache # <<>>
  /\ \E k \in 1 .. Len(page) : page[k].source = Vitrina /\ page[k].contact_phone = Some(Phone(1))

\* ------------------------------------------------------ fallback step claims
ContactsOf(p) == [k \in 1 .. Len(p) |-> <<p[k].contact_name, p[k].contact_phone>>]

\* C25: without the remote-directory credential the fallback is a no-op: no
\* step sends a directory request, the fetch and the second pass go on to the
\* response without an error, and they leave every page item's contactName and
\* contactPhone as the local-directory pass set them.
C25_NoCredentialNoOp ==
  [][~agents_token =>
       /\ api_requests' = 0
       /\ pc = "fetch" => (pc' = "second" /\ api_agents_cache' = <<>>)
       /\ pc = "second" => pc' = "respond"
       /\ pc \in {"fetch", "second"} => ContactsOf(page') = ContactsOf(page)]_vars

\* A Primary item was queued, the remote directory knows its agent, and the
\* fallback ended without a request and without a phone.
C25_Witness ==
  /\ pc = "respond"
  /\ ~agents_token
  /\ need_api_fallback # <<>>
  /\ fetch_calls = 1
  /\ api_requests = 0
  /\ api_agents # <<>>
  /\ \E k \in 1 .. Len(page) :
       /\ page[k].source = Vitrina
       /\ ~IsNone(page[k].contact_name)
       /\ IsNone(page[k].contact_phone)

\* The page items the local pass leaves for the fallback: a Primary item with
\* a name and no phone, a Secondary item with a non-blank phone and no name.
NeedsFallback(it) ==
  IF it.source = Vitrina
    THEN Truthy(it.mop) /\ IsNone(it.contact_phone)
    ELSE Truthy(it.stats_agent_given) /\ Strip(Val(it.stats_agent_given)) # EmptyStr
           /\ IsNone(it.contact_name)

\* The local pass is over and the second pass has changed nothing yet.
LocalPassDone ==
  \/ pc \in {"fetch", "fetching", "fetch_sleep", "second"}
  \/ (pc = "respond" /\ fetch_calls = 0)

\* C26: the remote directory is fetched at most once per request, and only
\* when a page item was queued for fallback; when every page item resolves
\* locally or has no name or phone no fetch occurs, whatever the items that
\* are not on the page would need.
C26_FetchOnce ==
  /\ fetch_calls <= 1
  /\ api_requests >= 1 => fetch_calls = 1
  /\ fetch_calls = 1 => need_api_fallback # <<>>
  /\ LocalPassDone =>
       (need_api_fallback # <<>> <=> \E k \in 1 .. Len(page) : NeedsFallback(page[k]))
  /\ pc \in {"respond", "responded"} => (fetch_calls = 1 <=> need_api_fallback # <<>>)

\* The page holds the Primary item, which has no assigned agent; the Secondary
\* item has a phone the local directory does not know but is not on the page:
\* the response is built without a fetch.
C26_Witness ==
  /\ pc = "responded"
  /\ fetch_calls = 0 /\ api_requests = 0
  /\ agents_token
  /\ Len(page) = 1 /\ page[1].source = Vitrina
  /\ \E i \in 1 .. Len(items) :
       /\ items[i].source = Krisha
       /\ Truthy(items[i].stats_agent_given)
  /\ db_agents = <<>>

\* ------------------------------------------------------------- index claims
\* The rows of the local directory that enter nameToPhone, and their keys.
Indexed(k) ==
  /\ Truthy(db_agents[k].agent_phone)
  /\ Truthy(db_agents[k].full_name)
  /\ normalize_words(Val(db_agents[k].full_name)) # <<>>

KeyOf(k) == Join(SortWords(normalize_words(Val(db_agents[k].full_name))))

WordCount(k) == Len(normalize_words(Val(db_agents[k].full_name)))

\* The row of key `key` that replaces no row with at least as many words: the
\* first of those with the most words.
BestRow(key) ==
  CHOOSE k \in 1 .. Len(db_agents) :
    /\ Indexed(k) /\ KeyOf(k) = key
    /\ \A j \in 1 .. Len(db_agents) :
         (Indexed(j) /\ KeyOf(j) = key) =>
           (WordCount(j) < WordCount(k) \/ (WordCount(j) = WordCount(k) /\ j >= k))

\* C27: the keys of nameToPhone are the lower-cased name words, sorted and
\* joined by single spaces, and under each key the index keeps the phone of
\* the entry with more name words, an entry never replacing one that has at
\* least as many.
C27_BestMatchKept ==
  LET name_to_phone == prepare_agents_indexes(db_agents).name_to_phone IN
  /\ DOMAIN name_to_phone = {KeyOf(k) : k \in {j \in 1 .. Len(db_agents) : Indexed(j)}}
  /\ \A key \in DOMAIN name_to_phone :
       name_to_phone[key] = Strip(Val(db_agents[BestRow(key)].agent_phone))

\* ---------------------------------------------------------- termination claims
RECURSIVE SumTo(_, _)
SumTo(f, n) == IF n = 0 THEN 0 ELSE f[n] + SumTo(f, n - 1)

TotalRequests == SumTo(requests, Len(requests))

\* C28: when every request eventually answers or fails, a paginator run
\* eventually returns its page and total, whatever the single checks end
\* with, and it sends at most (max_retries + 1) x (number of Primary items)
\* validity requests.
C28_Termination ==
  /\ <>Done
  /\ [](TotalRequests <= (max_retries + 1) * Len(vitrina_items))

\* The run returned after one check raised a non-network error on its retry
\* and the other used up every attempt.
C28_Witness ==
  /\ Done /\ token
  /\ Len(vitrina_items) = 2
  /\ script[vitrina_items[1]] = [timeouts |-> 1, answer |-> OtherError]
  /\ script[vitrina_items[2]].timeouts = max_retries + 1
  /\ TotalRequests = 2 + (max_retries + 1)
  /\ total = Len(items)
  /\ page = <<items[vitrina_items[2]]>>

\* ---------------------------------------------------------- consecutive pages
\* The run of the paginator for offset o and limit l over the same sorted list
\* and the same per-item outcomes, its batches checked one item after the
\* other.
RECURSIVE RunValid(_, _, _, _)
RunValid(p, batch, valid, target) ==
  IF p > Len(vitrina_items)
    THEN IF batch # <<>> /\ Len(valid) < target
           THEN valid \o SelectSeq(batch, LAMBDA i : YieldsValid(i))
           ELSE valid
    ELSE LET b == Append(batch, vitrina_items[p]) IN
         IF Len(b) >= batch_size
           THEN LET v == valid \o SelectSeq(b, LAMBDA i : YieldsValid(i)) IN
                IF Len(v) >= target THEN v ELSE RunValid(p + 1, <<>>, v, target)
           ELSE IF Len(valid) >= target THEN valid ELSE RunValid(p + 1, b, valid, target)

RunPage(o, l) ==
  LET valid == RunValid(1, <<>>, <<>>, o + l)
      filled == IF Len(valid) < o + l
                  THEN valid \o Slice(krisha_items, 0, o + l - Len(valid))
                  ELSE valid
  IN ItemsAt(Slice(SortByIdx(filled), o, o + l))

\* C29: for a fixed sorted list and fixed outcomes the page of a run for
\* (offset, l1 + l2) is the page for (offset, l1) followed by the page for
\* (offset + l1, l2): consecutive pages repeat no item and skip none.
C29_ConsecutivePages ==
  (Done /\ token) =>
    /\ page = RunPage(offset, limit)
    /\ \A l1 \in 1 .. (limit - 1) :
         page = RunPage(offset, l1) \o RunPage(offset + l1, limit - l1)

\* A page of two items whose halves come from runs that check one batch and
\* two batches.
C29_Witness ==
  /\ Done /\ token
  /\ limit = 2 /\ batch_size = 1
  /\ Len(page) = 2
  /\ Len(RunValid(1, <<>>, <<>>, offset + 1)) < Len(RunValid(1, <<>>, <<>>, offset + 2))
  /\ page = RunPage(offset, 1) \o RunPage(offset + 1, 1)

====
